---- MODULE Spec2Model ----
(***************************************************************************)
(* A model of the PowerBuy extraction / normalization / validation         *)
(* pipeline: StockStatusNormalizer, PowerBuyJSONParser, DataTransformer,   *)
(* the pydantic models RawProductData / ProductData, and DataProducer.     *)
(*                                                                         *)
(* Text is modelled as a sequence of characters.  An ASCII character is    *)
(* the one-character string holding it; a Thai code point U+0Exx is the    *)
(* token "u0exx"; tab, line feed and carriage return are "TAB", "LF" and   *)
(* "CR".  Python's None is the value None below, which is no text.         *)
(***************************************************************************)
EXTENDS Integers, Sequences, FiniteSets, TLC

(***************************************************************************)
(* Bounds of the model.                                                    *)
(***************************************************************************)
\* longest generated stock-status text (on top of the listed texts)
MaxStatusLen == 3
\* number of add_custom_patterns calls before the status is normalized
MaxCustomAdds == 1
\* number of *.json files in the input directory
MaxFiles == 3
\* number of raw records handed to transform_to_product_data
MaxRaw == 2
\* number of items of a products array handed to extract_products_from_json
MaxItems == 2
\* longest generated price text (on top of the listed prices)
MaxPriceLen == 4
MaxProducts == 2
MaxRuns == 4
MaxSaved == 1
MaxTerms == 2
MaxRetries == 2

(***************************************************************************)
(* Characters and Python's str operations.                                 *)
(***************************************************************************)
Chars(s) == [i \in 1..Len(s) |-> SubSeq(s, i, i)]

None == <<"NONE">>
\* the integers 0 and 1 handed in where a text is expected
IntZero == <<"INT0">>
IntOne == <<"INT1">>
NonStrings == {IntZero, IntOne}

IsStr(v) == v # None /\ v \notin NonStrings

\* Python truthiness: None, "" and 0 are falsy
Falsy(v) == v = None \/ v = <<>> \/ v = IntZero

UpperLetters == Chars("ABCDEFGHIJKLMNOPQRSTUVWXYZ")
LowerLetters == Chars("abcdefghijklmnopqrstuvwxyz")
UpperSet == {UpperLetters[i] : i \in 1..Len(UpperLetters)}
LowerSet == {LowerLetters[i] : i \in 1..Len(LowerLetters)}
Digits == {"0", "1", "2", "3", "4", "5", "6", "7", "8", "9"}
Whitespace == {" ", "TAB", "LF", "CR"}

\* the Thai letters of the pattern tables (str.isalnum() holds of them) ...
ThaiWordChars ==
    {"u0e01", "u0e02", "u0e04", "u0e07", "u0e08", "u0e0a", "u0e13", "u0e14",
     "u0e15", "u0e17", "u0e19", "u0e1e", "u0e21", "u0e22", "u0e23", "u0e27",
     "u0e2a", "u0e2b", "u0e2d", "u0e30", "u0e32", "u0e33", "u0e43", "u0e44"}
\* ... and the Thai combining marks, which \w does not match
ThaiMarks == {"u0e31", "u0e34", "u0e35", "u0e47", "u0e48", "u0e49"}

ToLower == [c \in UpperSet |-> LowerLetters[CHOOSE i \in 1..Len(UpperLetters) : UpperLetters[i] = c]]
ToUpper == [c \in LowerSet |-> UpperLetters[CHOOSE i \in 1..Len(LowerLetters) : LowerLetters[i] = c]]

IsSpace(c) == c \in Whitespace
IsAsciiLetter(c) == c \in UpperSet \/ c \in LowerSet
\* the class \w of a str pattern
WordChars == UpperSet \cup LowerSet \cup Digits \cup {"_"} \cup ThaiWordChars
IsWordChar(c) == c \in WordChars

LowerChar(c) == IF c \in UpperSet THEN ToLower[c] ELSE c
UpperChar(c) == IF c \in LowerSet THEN ToUpper[c] ELSE c

\* str.lower() and str.upper()
Lower(s) == [i \in 1..Len(s) |-> LowerChar(s[i])]
Upper(s) == [i \in 1..Len(s) |-> UpperChar(s[i])]

\* str.strip()
Strip(s) ==
    LET keep == {i \in 1..Len(s) : ~IsSpace(s[i])}
    IN  IF keep = {} THEN <<>>
        ELSE SubSeq(s, CHOOSE i \in keep : \A j \in keep : i <= j,
                       CHOOSE i \in keep : \A j \in keep : j <= i)

\* re.sub(r'\s+', ' ', s): every maximal run of whitespace becomes one blank
CollapseWhitespace(s) ==
    LET marked == [i \in 1..Len(s) |->
                     IF ~IsSpace(s[i]) THEN <<s[i], TRUE>>
                     ELSE <<" ", i = 1 \/ ~IsSpace(s[i - 1])>>]
        kept == SelectSeq(marked, LAMBDA m : m[2])
    IN  [i \in 1..Len(kept) |-> kept[i][1]]

\* re.sub(r'[...]', '', s) for a character class
RemoveChars(s, class) == SelectSeq(s, LAMBDA c : c \notin class)

\* p in s
IsSubstr(p, s) == \E i \in 1..(Len(s) - Len(p) + 1) : SubSeq(s, i, i + Len(p) - 1) = p

\* \b between positions k and k+1 of s (k = 0 is the start, k = Len(s) the end)
WordBoundary(s, k) ==
    LET before == k >= 1 /\ IsWordChar(s[k])
        after == k < Len(s) /\ IsWordChar(s[k + 1])
    IN  before # after

\* re.search(rf'\b{re.escape(p)}\b', s) for a non-empty p
WordSearch(p, s) ==
    \E i \in 1..(Len(s) - Len(p) + 1) :
        /\ SubSeq(s, i, i + Len(p) - 1) = p
        /\ WordBoundary(s, i - 1)
        /\ WordBoundary(s, i + Len(p) - 1)

\* all texts over an alphabet of at most n characters
RECURSIVE TextsUpTo(_, _)
TextsUpTo(alphabet, n) ==
    IF n = 0 THEN {<<>>}
    ELSE LET shorter == TextsUpTo(alphabet, n - 1)
         IN  shorter \cup {Append(t, c) : t \in shorter, c \in alphabet}

(***************************************************************************)
(* StockStatusNormalizer (validators/stock_normalizer.py).                 *)
(***************************************************************************)
InStock == "In Stock"
OutOfStock == "Out of Stock"
Unknown == "Unknown"
\* the call ended in an exception
Raised == "raised"
\* no call was made yet
Pending == "pending"

DefaultInStockPatterns ==
    << Chars("in stock"), Chars("available"), Chars("in-stock"), Chars("instock"),
       Chars("yes"), Chars("true"), Chars("1"), Chars("ready"), Chars("ready to ship"),
       Chars("on hand"), Chars("stocked"), Chars("inventory available"),
       <<"u0e21", "u0e35", "u0e2a", "u0e34", "u0e19", "u0e04", "u0e49", "u0e32">>,
       <<"u0e1e", "u0e23", "u0e49", "u0e2d", "u0e21", "u0e2a", "u0e48", "u0e07">>,
       <<"u0e21", "u0e35", "u0e02", "u0e2d", "u0e07">>,
       <<"u0e21", "u0e35", "u0e2a", "u0e15", "u0e47", "u0e2d", "u0e01">>,
       <<"u0e1e", "u0e23", "u0e49", "u0e2d", "u0e21", "u0e08", "u0e31", "u0e14", "u0e2a", "u0e48", "u0e07">>,
       <<"u0e21", "u0e35", "u0e43", "u0e19", "u0e2a", "u0e15", "u0e47", "u0e2d", "u0e01">>,
       <<"u0e2a", "u0e34", "u0e19", "u0e04", "u0e49", "u0e32", "u0e1e", "u0e23", "u0e49", "u0e2d", "u0e21">>,
       <<"u0e1e", "u0e23", "u0e49", "u0e2d", "u0e21", "u0e02", "u0e32", "u0e22">>,
       <<"u0e21", "u0e35", "u0e08", "u0e33", "u0e2b", "u0e19", "u0e48", "u0e32", "u0e22">>,
       <<"u0e2a", "u0e34", "u0e19", "u0e04", "u0e49", "u0e32", "u0e21", "u0e35">>,
       Chars("available now"), Chars("ready now"),
       <<"u0e1e", "u0e23", "u0e49", "u0e2d", "u0e21", "u0e17", "u0e31", "u0e19", "u0e17", "u0e35">>,
       <<"u0e21", "u0e35", "u0e2a", "u0e34", "u0e19", "u0e04", "u0e49", "u0e32", "u0e1e", "u0e23", "u0e49", "u0e2d", "u0e21", "u0e2a", "u0e48", "u0e07">>,
       <<"u0e2a", "u0e34", "u0e19", "u0e04", "u0e49", "u0e32", "u0e1e", "u0e23", "u0e49", "u0e2d", "u0e21", "u0e08", "u0e31", "u0e14", "u0e2a", "u0e48", "u0e07">> >>

DefaultOutOfStockPatterns ==
    << Chars("out of stock"), Chars("unavailable"), Chars("out-of-stock"), Chars("outofstock"),
       Chars("no"), Chars("false"), Chars("0"), Chars("sold out"), Chars("not available"),
       Chars("no stock"), Chars("empty"), Chars("depleted"), Chars("exhausted"),
       <<"u0e2b", "u0e21", "u0e14">>,
       <<"u0e2a", "u0e34", "u0e19", "u0e04", "u0e49", "u0e32", "u0e2b", "u0e21", "u0e14">>,
       <<"u0e44", "u0e21", "u0e48", "u0e21", "u0e35", "u0e2a", "u0e34", "u0e19", "u0e04", "u0e49", "u0e32">>,
       <<"u0e44", "u0e21", "u0e48", "u0e21", "u0e35", "u0e02", "u0e2d", "u0e07">>,
       <<"u0e44", "u0e21", "u0e48", "u0e21", "u0e35", "u0e2a", "u0e15", "u0e47", "u0e2d", "u0e01">>,
       <<"u0e2a", "u0e15", "u0e47", "u0e2d", "u0e01", "u0e2b", "u0e21", "u0e14">>,
       <<"u0e02", "u0e32", "u0e22", "u0e2b", "u0e21", "u0e14">>,
       <<"u0e44", "u0e21", "u0e48", "u0e1e", "u0e23", "u0e49", "u0e2d", "u0e21", "u0e2a", "u0e48", "u0e07">>,
       <<"u0e44", "u0e21", "u0e48", "u0e21", "u0e35", "u0e43", "u0e19", "u0e2a", "u0e15", "u0e47", "u0e2d", "u0e01">>,
       <<"u0e2a", "u0e34", "u0e19", "u0e04", "u0e49", "u0e32", "u0e44", "u0e21", "u0e48", "u0e1e", "u0e23", "u0e49", "u0e2d", "u0e21">>,
       Chars("temporarily unavailable"),
       <<"u0e0a", "u0e31", "u0e48", "u0e27", "u0e04", "u0e23", "u0e32", "u0e27", "u0e2b", "u0e21", "u0e14">>,
       <<"u0e2a", "u0e34", "u0e19", "u0e04", "u0e49", "u0e32", "u0e2b", "u0e21", "u0e14", "u0e0a", "u0e31", "u0e48", "u0e27", "u0e04", "u0e23", "u0e32", "u0e27">>,
       <<"u0e44", "u0e21", "u0e48", "u0e21", "u0e35", "u0e2a", "u0e34", "u0e19", "u0e04", "u0e49", "u0e32", "u0e43", "u0e19", "u0e02", "u0e13", "u0e30", "u0e19", "u0e35", "u0e49">> >>

\* _clean_status_string: lower-case, strip, collapse whitespace, drop . , ! ? ; :
StatusPunctuation == {".", ",", "!", "?", ";", ":"}

_clean_status_string(status) ==
    RemoveChars(CollapseWhitespace(Strip(Lower(status))), StatusPunctuation)

\* re.match(r'^[a-zA-Z\s]+$', pattern)
IsEnglishPattern(pattern) ==
    /\ Len(pattern) > 0
    /\ \A i \in 1..Len(pattern) : IsAsciiLetter(pattern[i]) \/ IsSpace(pattern[i])

\* the three tests _matches_patterns makes of one pattern
MatchesOnePattern(status, pattern) ==
    LET pattern_lower == Lower(pattern)
    IN  \/ status = pattern_lower
        \/ IsSubstr(pattern_lower, status)
        \/ (IsEnglishPattern(pattern) /\ WordSearch(pattern_lower, status))

_matches_patterns(status, patterns) ==
    \E k \in 1..Len(patterns) : MatchesOnePattern(status, patterns[k])

\* normalize_stock_status testing the in-stock list first
normalize_in_stock_first(status, out_patterns, in_patterns) ==
    IF Falsy(status) THEN Unknown
    ELSE IF ~IsStr(status) THEN Raised
    ELSE LET cleaned_status == _clean_status_string(status)
         IN  IF _matches_patterns(cleaned_status, in_patterns) THEN InStock
             ELSE IF _matches_patterns(cleaned_status, out_patterns) THEN OutOfStock
             ELSE Unknown

\* normalize_stock_status without its "if not status" guard
normalize_unguarded(status, out_patterns, in_patterns) ==
    IF ~IsStr(status) THEN Raised
    ELSE LET cleaned_status == _clean_status_string(status)
         IN  IF _matches_patterns(cleaned_status, out_patterns) THEN OutOfStock
             ELSE IF _matches_patterns(cleaned_status, in_patterns) THEN InStock
             ELSE Unknown

\* normalize_stock_status with the out-of-stock and in-stock lists in force
normalize_stock_status(status, out_patterns, in_patterns) ==
    IF Falsy(status) THEN Unknown
    ELSE IF ~IsStr(status) THEN Raised
    ELSE LET cleaned_status == _clean_status_string(status)
         IN  IF _matches_patterns(cleaned_status, out_patterns) THEN OutOfStock
             ELSE IF _matches_patterns(cleaned_status, in_patterns) THEN InStock
             ELSE Unknown

(***************************************************************************)
(* PriceParser (parsers/powerbuy_parser.py).  An amount is held in         *)
(* hundredths of a baht (cents), so 30400.00 is 3040000.                   *)
(***************************************************************************)
BahtGlyph == "u0e3f"
CurrencyWords ==
    << Chars("THB"), Chars("Baht"), <<"u0e1a", "u0e32", "u0e17">> >>
\* the letters of the Thai currency word are word characters as well
PriceWordChars == WordChars \cup {"u0e1a", "u0e32", "u0e17"}

PriceBoundary(s, k) ==
    LET before == k >= 1 /\ s[k] \in PriceWordChars
        after == k < Len(s) /\ s[k + 1] \in PriceWordChars
    IN  before # after

\* re.sub(rf'\b{word}\b', '', s, flags=re.IGNORECASE), scanning s from position i
RECURSIVE RemoveWordFrom(_, _, _)
RemoveWordFrom(word, s, i) ==
    IF i > Len(s) THEN <<>>
    ELSE IF /\ i + Len(word) - 1 <= Len(s)
            /\ Lower(SubSeq(s, i, i + Len(word) - 1)) = Lower(word)
            /\ PriceBoundary(s, i - 1)
            /\ PriceBoundary(s, i + Len(word) - 1)
         THEN RemoveWordFrom(word, s, i + Len(word))
         ELSE <<s[i]>> \o RemoveWordFrom(word, s, i + 1)

RemoveCurrencyWords(s) ==
    RemoveWordFrom(CurrencyWords[3], RemoveWordFrom(CurrencyWords[2],
        RemoveWordFrom(CurrencyWords[1], s, 1), 1), 1)

CountChar(s, c) == Cardinality({i \in 1..Len(s) : s[i] = c})

\* a variant that leaves every '.' in place
KeepEveryPoint(s) == s

\* with more than one '.', every '.' but the last is dropped
KeepLastPoint(s) ==
    IF CountChar(s, ".") > 1
    THEN LET last == CHOOSE i \in 1..Len(s) : s[i] = "." /\ \A j \in (i + 1)..Len(s) : s[j] # "."
         IN  RemoveChars(SubSeq(s, 1, last - 1), {"."}) \o SubSeq(s, last, Len(s))
    ELSE s

_clean_price_string(price_str) ==
    LET no_glyph == RemoveChars(price_str, {BahtGlyph})
        no_words == RemoveCurrencyWords(no_glyph)
        no_commas == RemoveChars(no_words, {","})
        no_spaces == RemoveChars(no_commas, Whitespace)
    IN  Strip(KeepLastPoint(no_spaces))

DigitValue == [c \in Digits |-> CHOOSE n \in 0..9 : Chars("0123456789")[n + 1] = c]

RECURSIVE DigitsToNat(_)
DigitsToNat(ds) ==
    IF ds = <<>> THEN 0
    ELSE 10 * DigitsToNat(SubSeq(ds, 1, Len(ds) - 1)) + DigitValue[ds[Len(ds)]]

\* round(x, 2) of the decimal int_digits.frac_digits, in cents; a third fractional
\* digit of exactly 5 with nothing behind it is rounded to the even cent, as Python
\* does for a tie the float holds exactly (0.125, 0.375, 0.625, 0.875)
RoundToCents(int_digits, frac_digits) ==
    LET padded == frac_digits \o <<"0", "0", "0">>
        base == 100 * DigitsToNat(int_digits) + DigitsToNat(SubSeq(padded, 1, 2))
        third == DigitValue[padded[3]]
        more == \E i \in 4..Len(frac_digits) : frac_digits[i] # "0"
    IN  IF third > 5 \/ (third = 5 /\ more) THEN base + 1
        ELSE IF third = 5 /\ base % 2 = 1 THEN base + 1
        ELSE base

\* the float a decimal mantissa with a power of ten denotes, rounded to cents:
\* the point of the mantissa is moved by the exponent
ScaledDecimal(mantissa, exponent, negative) ==
    LET point == IF CountChar(mantissa, ".") = 1
                 THEN CHOOSE i \in 1..Len(mantissa) : mantissa[i] = "."
                 ELSE Len(mantissa) + 1
        digits == RemoveChars(mantissa, {"."})
        split == (point - 1) + exponent
        int_digits == IF split <= 0 THEN <<>>
                      ELSE IF split >= Len(digits)
                      THEN digits \o [i \in 1..(split - Len(digits)) |-> "0"]
                      ELSE SubSeq(digits, 1, split)
        frac_digits == IF split <= 0 THEN [i \in 1..(0 - split) |-> "0"] \o digits
                       ELSE IF split >= Len(digits) THEN <<>>
                       ELSE SubSeq(digits, split + 1, Len(digits))
    IN  IF /\ \A i \in 1..Len(mantissa) : mantissa[i] \in Digits \cup {"."}
           /\ CountChar(mantissa, ".") <= 1
           /\ digits # <<>>
        THEN [ok |-> TRUE, kind |-> "num", negative |-> negative,
              cents |-> RoundToCents(int_digits, frac_digits)]
        ELSE [ok |-> FALSE, kind |-> "error", negative |-> FALSE, cents |-> 0]

\* float(text): [ok |-> FALSE] when float() raises ValueError.  An underscore is
\* allowed between two digits only; an exponent is "e", an optional sign and digits.
ParseFloat(text) ==
    LET Invalid == [ok |-> FALSE, kind |-> "error", negative |-> FALSE, cents |-> 0]
        Grouped(body) ==
            \A i \in 1..Len(body) :
                body[i] = "_" => /\ 1 < i /\ i < Len(body)
                                 /\ body[i - 1] \in Digits /\ body[i + 1] \in Digits
        FirstE(plain) ==
            IF \E i \in 1..Len(plain) : plain[i] = "e"
            THEN CHOOSE i \in 1..Len(plain) :
                    plain[i] = "e" /\ \A j \in 1..(i - 1) : plain[j] # "e"
            ELSE Len(plain) + 1
        Powered(mantissa, exp_digits, exp_negative, negative) ==
            IF exp_digits # <<>> /\ \A i \in 1..Len(exp_digits) : exp_digits[i] \in Digits
            THEN ScaledDecimal(mantissa,
                               IF exp_negative THEN 0 - DigitsToNat(exp_digits)
                               ELSE DigitsToNat(exp_digits),
                               negative)
            ELSE Invalid
        WithExponent(mantissa, exp_text, negative) ==
            IF exp_text # <<>> /\ exp_text[1] \in {"+", "-"}
            THEN Powered(mantissa, Tail(exp_text), exp_text[1] = "-", negative)
            ELSE Powered(mantissa, exp_text, FALSE, negative)
        Decimal(plain, e_at, negative) ==
            IF e_at > Len(plain) THEN ScaledDecimal(plain, 0, negative)
            ELSE WithExponent(SubSeq(plain, 1, e_at - 1),
                              SubSeq(plain, e_at + 1, Len(plain)), negative)
        Unsigned(body, negative) ==
            IF body = Chars("nan")
            THEN [ok |-> TRUE, kind |-> "nan", negative |-> negative, cents |-> 0]
            ELSE IF body \in {Chars("inf"), Chars("infinity")}
            THEN [ok |-> TRUE, kind |-> "inf", negative |-> negative, cents |-> 0]
            ELSE IF ~Grouped(body) THEN Invalid
            ELSE Decimal(RemoveChars(body, {"_"}), FirstE(RemoveChars(body, {"_"})), negative)
        Signed(lowered) ==
            IF Len(lowered) > 0 /\ lowered[1] \in {"+", "-"}
            THEN Unsigned(Tail(lowered), lowered[1] = "-")
            ELSE Unsigned(lowered, FALSE)
    IN  Signed(Lower(text))

PriceError == [ok |-> FALSE, kind |-> "error", negative |-> FALSE, cents |-> 0]

\* a variant that takes no float for negative
FloatNeverNegative(f, exact_zero) == FALSE

\* a float is below zero (-0.0, which rounds to zero cents, and nan are not)
FloatIsNegative(f, exact_zero) ==
    \/ (f.kind = "inf" /\ f.negative)
    \/ (f.kind = "num" /\ f.negative /\ ~exact_zero)

\* every digit of the mantissa of the number is 0
IsZeroNumber(text) ==
    \A i \in 1..Len(text) :
        text[i] \in (Digits \ {"0"}) => \E j \in 1..(i - 1) : text[j] \in {"e", "E"}

\* a price given as an int or a float is the token "NUM" before its literal
IsNumber(price_input) == price_input # <<>> /\ price_input[1] = "NUM"

\* the float parse_price returns: round(x, 2) keeps the sign of -0.0
RoundedPrice(x) ==
    [ok |-> TRUE, kind |-> x.kind, negative |-> x.negative /\ x.kind = "num", cents |-> x.cents]

\* PriceParser.parse_price of a number, a text or None: [ok |-> FALSE] when it
\* raises ValueError
parse_price(price_input) ==
    IF price_input = None THEN PriceError
    ELSE IF IsNumber(price_input)
    THEN (IF FloatIsNegative(ParseFloat(Tail(price_input)), IsZeroNumber(Tail(price_input)))
          THEN PriceError
          ELSE RoundedPrice(ParseFloat(Tail(price_input))))
    ELSE LET price_str == Strip(price_input)
             cleaned_price == _clean_price_string(price_str)
             parsed_price == ParseFloat(cleaned_price)
         IN  IF price_str = <<>> THEN PriceError
             ELSE IF cleaned_price = <<>> THEN PriceError
             ELSE IF ~parsed_price.ok THEN PriceError
             ELSE IF FloatIsNegative(parsed_price, IsZeroNumber(cleaned_price)) THEN PriceError
             ELSE RoundedPrice(parsed_price)

\* str() of a float parse_price returned: the shortest text that gives the float
\* back, which for a number of cents has one or two fractional digits
StrFloat(x) ==
    LET RECURSIVE NatToDigits(_)
        NatToDigits(n) ==
            IF n < 10 THEN <<Chars("0123456789")[n + 1]>>
            ELSE NatToDigits(n \div 10) \o <<Chars("0123456789")[(n % 10) + 1]>>
        fraction == x.cents % 100
    IN  IF x.kind = "nan" THEN Chars("nan")
        ELSE IF x.kind = "inf" THEN (IF x.negative THEN Chars("-inf") ELSE Chars("inf"))
        ELSE (IF x.negative THEN <<"-">> ELSE <<>>)
             \o NatToDigits(x.cents \div 100) \o <<".">>
             \o (IF fraction % 10 = 0 THEN NatToDigits(fraction \div 10)
                 ELSE NatToDigits(fraction \div 10) \o NatToDigits(fraction % 10))

\* validate_price_range with its default limits 0.01 and 1000000.0
MinPriceCents == 1
MaxPriceCents == 100000000

validate_price_range(price) ==
    price.kind = "num" /\ MinPriceCents <= price.cents /\ price.cents <= MaxPriceCents

(***************************************************************************)
(* The pydantic models (validators/models.py).  A constructor gives a      *)
(* record with ok = TRUE and the validated fields, or ok = FALSE when      *)
(* pydantic raises ValidationError.                                        *)
(***************************************************************************)
RawNameMinLen == 1
RawNameMaxLen == 500
RawSkuMinLen == 1
RawSkuMaxLen == 100
RawPriceMaxLen == 50
NameMinLen == 2
NameMaxLen == 500
SkuMinLen == 1
SkuMaxLen == 100

NoRawProduct == [ok |-> FALSE, name |-> <<>>, sku |-> <<>>, price |-> None, stock_status |-> None]

\* RawProductData.validate_name
validate_name(v) ==
    LET cleaned == CollapseWhitespace(Strip(v))
    IN  IF Strip(v) = <<>> \/ Len(cleaned) > RawNameMaxLen
        THEN [ok |-> FALSE, v |-> <<>>]
        ELSE [ok |-> TRUE, v |-> cleaned]

\* RawProductData.validate_sku
validate_sku(v) ==
    LET cleaned == Upper(Strip(v))
    IN  IF Strip(v) = <<>> \/ Len(cleaned) > RawSkuMaxLen
        THEN [ok |-> FALSE, v |-> <<>>]
        ELSE [ok |-> TRUE, v |-> cleaned]

\* RawProductData.validate_price_string
validate_price_string(v) ==
    IF v = None THEN [ok |-> TRUE, v |-> None]
    ELSE LET price_str == Strip(v)
         IN  IF price_str = <<>> THEN [ok |-> TRUE, v |-> None]
             ELSE IF Len(price_str) > RawPriceMaxLen THEN [ok |-> FALSE, v |-> None]
             ELSE [ok |-> TRUE, v |-> price_str]

\* RawProductData(name=..., sku=..., price=..., stock_status=..., raw_json=...);
\* raw_json must be a dict
RawProductData(name, sku, price, stock_status, raw_json_is_dict) ==
    LET n == validate_name(name)
        k == validate_sku(sku)
        p == validate_price_string(price)
    IN  IF /\ Len(name) >= RawNameMinLen /\ Len(name) <= RawNameMaxLen
           /\ Len(sku) >= RawSkuMinLen /\ Len(sku) <= RawSkuMaxLen
           /\ n.ok /\ k.ok /\ p.ok
           /\ raw_json_is_dict
        THEN [ok |-> TRUE, name |-> n.v, sku |-> k.v, price |-> p.v, stock_status |-> stock_status]
        ELSE NoRawProduct

\* ProductData.validate_and_clean_name
validate_and_clean_name(v) ==
    LET collapsed == CollapseWhitespace(Strip(v))
        replaced == [i \in 1..Len(collapsed) |->
                        IF collapsed[i] \in {"\"", "LF", "CR", "TAB"} THEN " " ELSE collapsed[i]]
        cleaned == Strip(CollapseWhitespace(replaced))
    IN  IF Strip(v) = <<>> \/ Len(cleaned) < NameMinLen
        THEN [ok |-> FALSE, v |-> <<>>]
        ELSE IF Len(cleaned) > NameMaxLen
        THEN [ok |-> TRUE, v |-> SubSeq(cleaned, 1, NameMaxLen - 3) \o Chars("...")]
        ELSE [ok |-> TRUE, v |-> cleaned]

\* the characters re.sub(r'[^\w\-_]', '', ...) keeps
IsSkuChar(c) == IsWordChar(c) \/ c = "-"

\* a variant that strips the SKU and leaves its characters as they are
validate_sku_as_given(v) ==
    IF Strip(v) = <<>> \/ Len(Strip(v)) > SkuMaxLen
    THEN [ok |-> FALSE, v |-> <<>>]
    ELSE [ok |-> TRUE, v |-> Strip(v)]

\* ProductData.validate_and_normalize_sku
validate_and_normalize_sku(v) ==
    LET normalized == SelectSeq(Upper(Strip(v)), IsSkuChar)
    IN  IF Strip(v) = <<>> \/ normalized = <<>> \/ Len(normalized) > SkuMaxLen
        THEN [ok |-> FALSE, v |-> <<>>]
        ELSE [ok |-> TRUE, v |-> normalized]

\* the limit of ProductData.validate_price_value: 1000000 baht
PriceCeilingCents == 100000000

\* Field(ge=0) and ProductData.validate_price_value, of a float parse_price returned
validate_price_value(price) ==
    IF price.kind # "num" \/ price.cents < 0 \/ price.cents > PriceCeilingCents
    THEN [ok |-> FALSE, v |-> 0]
    ELSE [ok |-> TRUE, v |-> price.cents]

\* ProductData.normalize_stock_status_enhanced: a new StockStatusNormalizer each time
normalize_stock_status_enhanced(v) ==
    IF Falsy(v) THEN Unknown
    ELSE normalize_stock_status(v, DefaultOutOfStockPatterns, DefaultInStockPatterns)

\* the default of ProductData.data_source
DefaultDataSource == Chars("powerbuy.co.th")

NoProduct ==
    [ok |-> FALSE, name |-> <<>>, sku |-> <<>>, price_thb |-> 0, stock_status |-> Unknown,
     brand |-> None, category |-> None, data_source |-> DefaultDataSource]

\* ProductData(name=..., sku=..., price_thb=..., stock_status=...): the optional
\* fields keep their defaults
ProductData(name, sku, price, stock_status) ==
    LET n == validate_and_clean_name(name)
        k == validate_and_normalize_sku(sku)
        p == validate_price_value(price)
    IN  IF /\ Len(name) >= NameMinLen /\ Len(name) <= NameMaxLen
           /\ Len(sku) >= SkuMinLen /\ Len(sku) <= SkuMaxLen
           /\ n.ok /\ k.ok /\ p.ok
        THEN [NoProduct EXCEPT !.ok = TRUE, !.name = n.v, !.sku = k.v, !.price_thb = p.v,
                               !.stock_status = normalize_stock_status_enhanced(stock_status)]
        ELSE NoProduct

(***************************************************************************)
(* DataTransformer (parsers/powerbuy_parser.py).                           *)
(***************************************************************************)
UnknownProduct == Chars("Unknown Product")
\* f"UNKNOWN_{datetime.now().strftime('%Y%m%d_%H%M%S')}" at one reading of the clock
GeneratedSku == Chars("UNKNOWN_20240101_120000")

\* _parse_and_validate_price: the range check only logs
_parse_and_validate_price(price_input) == parse_price(price_input)

_clean_product_name(name) ==
    IF name = <<>> THEN UnknownProduct
    ELSE LET cleaned == CollapseWhitespace(Strip(name))
         IN  IF Len(cleaned) < 2
             THEN (IF cleaned # <<>> THEN Chars("Product ") \o cleaned ELSE UnknownProduct)
             ELSE cleaned

_clean_product_sku(sku) ==
    IF sku = <<>> THEN GeneratedSku
    ELSE LET cleaned == Upper(Strip(sku))
         IN  IF Len(cleaned) < 1 THEN GeneratedSku ELSE cleaned

in_stock_indicators ==
    << Chars("in stock"), Chars("available"),
       <<"u0e21", "u0e35", "u0e2a", "u0e34", "u0e19", "u0e04", "u0e49", "u0e32">>,
       <<"u0e1e", "u0e23", "u0e49", "u0e2d", "u0e21", "u0e2a", "u0e48", "u0e07">>,
       <<"u0e21", "u0e35", "u0e02", "u0e2d", "u0e07">>,
       Chars("in_stock"), Chars("instock"), Chars("yes"), Chars("true"), Chars("1") >>

out_of_stock_indicators ==
    << Chars("out of stock"), Chars("unavailable"),
       <<"u0e2b", "u0e21", "u0e14">>,
       <<"u0e2a", "u0e34", "u0e19", "u0e04", "u0e49", "u0e32", "u0e2b", "u0e21", "u0e14">>,
       <<"u0e44", "u0e21", "u0e48", "u0e21", "u0e35", "u0e2a", "u0e34", "u0e19", "u0e04", "u0e49", "u0e32">>,
       Chars("out_of_stock"), Chars("outofstock"), Chars("no"), Chars("false"), Chars("0") >>

AnyIndicatorIn(indicators, status) ==
    \E k \in 1..Len(indicators) : IsSubstr(indicators[k], status)

\* DataTransformer._normalize_stock_status
_normalize_stock_status(stock_status) ==
    IF Falsy(stock_status) THEN Chars(Unknown)
    ELSE LET status_lower == Strip(Lower(stock_status))
         IN  IF AnyIndicatorIn(in_stock_indicators, status_lower) THEN Chars(InStock)
             ELSE IF AnyIndicatorIn(out_of_stock_indicators, status_lower) THEN Chars(OutOfStock)
             ELSE Chars(Unknown)

\* _transform_single_product: ok = FALSE when it raises
_transform_single_product(raw_product) ==
    LET price_thb == _parse_and_validate_price(raw_product.price)
        cleaned_name == _clean_product_name(raw_product.name)
        cleaned_sku == _clean_product_sku(raw_product.sku)
        normalized_stock == _normalize_stock_status(raw_product.stock_status)
    IN  IF ~price_thb.ok THEN NoProduct
        ELSE ProductData(cleaned_name, cleaned_sku, price_thb, normalized_stock)

(***************************************************************************)
(* PowerBuyJSONParser (parsers/powerbuy_parser.py).                        *)
(*                                                                         *)
(* A candidate is one item of a products array.  is_dict says whether it   *)
(* is a JSON object; an item that is a JSON string has its characters in   *)
(* text, and a number or null has is_dict = FALSE and text = None.  For an *)
(* object, name, sku, price, stock_status and stock hold the value found   *)
(* under the key (a number as the text str() gives), or None when the key  *)
(* is absent or null.  price_dict says that "price" holds an object, whose *)
(* "selling" and "current" members are price_selling and price_current;    *)
(* stock_dict says that "stock" holds an object, whose "status" member is  *)
(* stock_dict_status.                                                      *)
(*                                                                         *)
(* A document is any JSON value: kind is "object", "array", "string",      *)
(* "number" or "null".  An array has its items in items and a string its   *)
(* characters in text.  For an object, products_kind tells what the        *)
(* "products" key holds ("absent", "list", "string", "object", "number",   *)
(* "null") and products what iterating it yields; nested_kind and nested   *)
(* tell the same of data.products ("absent" also when "data" is absent or  *)
(* no object); self holds the document's own product keys.                 *)
(***************************************************************************)
NoCandidate ==
    [is_dict |-> TRUE, text |-> None, name |-> None, sku |-> None,
     price |-> None, price_dict |-> FALSE, price_selling |-> None, price_current |-> None,
     stock_status |-> None, stock |-> None, stock_dict |-> FALSE, stock_dict_status |-> None]

EmptyDoc ==
    [kind |-> "object", text |-> None, items |-> <<>>,
     products_kind |-> "absent", products |-> <<>>,
     nested_kind |-> "absent", nested |-> <<>>, self |-> NoCandidate]

\* str() of a dict with one string member, or of the empty dict
StrDict(key, value) ==
    IF value = None THEN Chars("{}")
    ELSE Chars("{'") \o Chars(key) \o Chars("': '") \o value \o Chars("'}")

\* _extract_product_name / _extract_product_sku: "" when the key is absent or falsy
_extract_product_name(product_data) ==
    IF Falsy(product_data.name) THEN <<>> ELSE Strip(product_data.name)

_extract_product_sku(product_data) ==
    IF Falsy(product_data.sku) THEN <<>> ELSE Strip(product_data.sku)

\* _extract_product_price: the nested price object first, then the direct field,
\* which is str() of the object when none of its nested fields holds a value
_extract_product_price(product_data) ==
    IF product_data.price_dict /\ product_data.price_selling # None
    THEN product_data.price_selling
    ELSE IF product_data.price_dict /\ product_data.price_current # None
    THEN product_data.price_current
    ELSE IF product_data.price_dict THEN StrDict("selling", None)
    ELSE product_data.price

\* _extract_stock_status: the direct fields stock_status and stock first, then the
\* nested stock object
_extract_stock_status(product_data) ==
    LET stock == IF product_data.stock_dict
                 THEN StrDict("status", product_data.stock_dict_status)
                 ELSE product_data.stock
    IN  IF product_data.stock_status # None THEN product_data.stock_status
        ELSE IF stock # None THEN stock
        ELSE IF product_data.stock_dict /\ product_data.stock_dict_status # None
        THEN product_data.stock_dict_status
        ELSE None

\* _extract_single_product: NoRawProduct stands for the None it returns.  An item
\* that is no object gives no name and no SKU, or makes product_data[field] raise
\* TypeError, which the except clause turns into None as well.
_extract_single_product(product_data) ==
    IF ~product_data.is_dict THEN NoRawProduct
    ELSE LET name == _extract_product_name(product_data)
             sku == _extract_product_sku(product_data)
         IN  IF name = <<>> /\ sku = <<>> THEN NoRawProduct
             ELSE RawProductData(IF name # <<>> THEN name ELSE UnknownProduct,
                                 IF sku # <<>> THEN sku ELSE GeneratedSku,
                                 _extract_product_price(product_data),
                                 _extract_stock_status(product_data),
                                 TRUE)

\* _extract_from_products_array: the products, and the found / errors counts; no
\* exception leaves the loop (exc), as _extract_single_product raises none
RECURSIVE _extract_from_products_array(_)
_extract_from_products_array(products_array) ==
    IF products_array = <<>> THEN [products |-> <<>>, found |-> 0, errors |-> 0, exc |-> FALSE]
    ELSE LET rest == _extract_from_products_array(Tail(products_array))
             product == _extract_single_product(Head(products_array))
         IN  IF product.ok
             THEN [products |-> <<product>> \o rest.products,
                   found |-> rest.found + 1, errors |-> rest.errors, exc |-> FALSE]
             ELSE [products |-> rest.products,
                   found |-> rest.found, errors |-> rest.errors + 1, exc |-> FALSE]

\* _is_single_product: any(field in data for field in product_indicators), a key
\* test on an object and a substring test on a string
_is_single_product(data) ==
    IF data.kind = "string"
    THEN \E field \in {"name", "sku", "price", "title", "product_name"} :
            IsSubstr(Chars(field), data.text)
    ELSE \/ data.self.name # None \/ data.self.sku # None
         \/ data.self.price # None \/ data.self.price_dict

\* "key in json_data": a key test on an object, an element test on an array, a
\* substring test on a string
KeyIn(key, json_data) ==
    CASE json_data.kind = "string" -> IsSubstr(Chars(key), json_data.text)
      [] json_data.kind = "array" ->
            \E i \in 1..Len(json_data.items) : json_data.items[i].text = Chars(key)
      [] OTHER -> FALSE

\* the try block of extract_products_from_json: exc = TRUE when an exception leaves
\* it, which happens before products or the statistics are touched
ExtractionBody(json_data) ==
    LET is_object == json_data.kind = "object"
        NoneExtracted == [products |-> <<>>, found |-> 0, errors |-> 0, exc |-> FALSE]
        ExtractionRaises == [products |-> <<>>, found |-> 0, errors |-> 0, exc |-> TRUE]
    IN  \* 'products' in json_data: TypeError on a number or null
        IF json_data.kind \in {"number", "null"} THEN ExtractionRaises
        \* json_data['products'] on a string or an array: TypeError
        ELSE IF KeyIn("products", json_data) THEN ExtractionRaises
        ELSE IF is_object /\ json_data.products_kind = "list"
        THEN _extract_from_products_array(json_data.products)
        \* json_data['data'] on a string or an array: TypeError
        ELSE IF KeyIn("data", json_data) THEN ExtractionRaises
        \* 'products' in json_data['data'], whatever it holds: enumerate() raises
        \* TypeError on a number or null and iterates anything else
        ELSE IF is_object /\ json_data.nested_kind \in {"number", "null"}
        THEN ExtractionRaises
        ELSE IF is_object /\ json_data.nested_kind # "absent"
        THEN _extract_from_products_array(json_data.nested)
        ELSE IF json_data.kind = "array" THEN _extract_from_products_array(json_data.items)
        ELSE IF _is_single_product(json_data)
        THEN LET product == IF is_object THEN _extract_single_product(json_data.self)
                                         ELSE NoRawProduct
             IN  IF product.ok
                 THEN [products |-> <<product>>, found |-> 1, errors |-> 0, exc |-> FALSE]
                 ELSE NoneExtracted
        ELSE NoneExtracted

\* a variant without the except clause: the exception leaves the call
Propagate(body) ==
    [products |-> body.products, found |-> body.found, errors |-> body.errors,
     parsing_errors |-> <<>>, raised |-> body.exc]

\* the end of the try block and the except clause of extract_products_from_json
ExceptClause(body) ==
    IF body.exc
    THEN [products |-> <<>>, found |-> 0, errors |-> 1,
          parsing_errors |-> <<"Critical error extracting products">>,
          raised |-> FALSE]
    ELSE [products |-> body.products, found |-> body.found, errors |-> body.errors,
          parsing_errors |-> <<>>, raised |-> FALSE]

\* extract_products_from_json: the products it returns, the found / errors counts
\* it adds to the parser's statistics, the messages it appends to parsing_errors,
\* and whether an exception leaves the call
extract_products_from_json(json_data) == ExceptClause(ExtractionBody(json_data))

(***************************************************************************)
(* One StockStatusNormalizer object: its two pattern lists, its counters,  *)
(* the status text handed to normalize_stock_status and what the call      *)
(* returned.                                                               *)
(***************************************************************************)
VARIABLES in_stock_patterns, out_of_stock_patterns, normalization_stats,
          sn_status, sn_result, sn_adds

(***************************************************************************)
(* One DataProducer with its parser and transformer: the input directory   *)
(* (dir_state, files), the producer's stats, the parser's and the          *)
(* transformer's stats, the position of process_complete_pipeline (pc and  *)
(* the three loop indices), the lists the stages hand on, the rows of the  *)
(* written CSV file and its header, whether the output directory can be    *)
(* written, whether the call returned, and how many errors it raised.      *)
(* stages lists the stages entered, in order, and runs counts the calls of *)
(* process_complete_pipeline.                                              *)
(***************************************************************************)
VARIABLES dir_state, files, pc, stats, parser_stats, transformer_stats,
          raw_data, raw_products, validated_products,
          file_idx, doc_idx, rec_idx, output_rows, returned, raised, stages,
          output_columns, output_writable, runs

producerVars == <<dir_state, files, pc, stats, parser_stats, transformer_stats,
                  raw_data, raw_products, validated_products,
                  file_idx, doc_idx, rec_idx, output_rows, returned, raised, stages,
                  output_columns, output_writable, runs>>

(***************************************************************************)
(* One DataOrganizer: the id of its current session, the metadata of that  *)
(* session, the session_<id>.json files of its metadata directory, and the *)
(* call made last.                                                         *)
(***************************************************************************)
VARIABLES current_session_id, session_metadata, metadata_files, organizer_call

organizerVars == <<current_session_id, session_metadata, metadata_files, organizer_call>>

(***************************************************************************)
(* One ManualCollector in collect_search_data: the search terms given and  *)
(* max_retries, the position of the call (collect_pc, term_idx, attempt),  *)
(* the two lists and the error list of its CollectionSession, the results  *)
(* dictionary, last_error and what _collect_single_search_term_with_retry  *)
(* gave (retry_outcome), and the outcomes of the attempts made for the     *)
(* current search term.  The error of attempt k is written k.              *)
(***************************************************************************)
VARIABLES search_terms, max_retries, collect_pc, term_idx, attempt, last_error,
          retry_outcome, attempt_outcomes, search_terms_processed,
          search_terms_failed, session_errors, results

retryVars == <<search_terms, max_retries, collect_pc, term_idx, attempt, last_error,
               retry_outcome, attempt_outcomes, search_terms_processed,
               search_terms_failed, session_errors, results>>

collectorsVars == <<organizerVars, retryVars>>

stockVars == <<in_stock_patterns, out_of_stock_patterns, normalization_stats,
               sn_status, sn_result, sn_adds>>

(***************************************************************************)
(* One use of PriceParser: the value handed to parse_price, the text       *)
(* _clean_price_string made of it, what the call gave, and what            *)
(* parse_price gave for str() of that result.                              *)
(***************************************************************************)
VARIABLES price_input, price_cleaned, price_parsed, price_reparsed

priceVars == <<price_input, price_cleaned, price_parsed, price_reparsed>>

\* status texts of the repository's tests and examples
ListedStatusTexts ==
    { Chars("In Stock"), Chars("Available"), Chars("Out of Stock"), Chars("Unavailable"),
      Chars("sold out"), Chars("ready to ship"), Chars("unknown"), Chars("Unknown"),
      Chars("unknown status"), Chars("ready now"), Chars("not available"),
      Chars("random text"), Chars("   "), Chars("yes"), Chars("eyes"), Chars("10"),
      Chars("available."), Chars("In  Stock!"), Chars("temporarily unavailable"),
      Chars("preorder"), Chars("Pre-Order 1"),
      <<"TAB", "i", "n", " ", "s", "t", "o", "c", "k", "LF">>,
      <<"u0e21", "u0e35", "u0e2a", "u0e34", "u0e19", "u0e04", "u0e49", "u0e32">>,
      <<"u0e1e", "u0e23", "u0e49", "u0e2d", "u0e21", "u0e2a", "u0e48", "u0e07">>,
      <<"u0e2b", "u0e21", "u0e14">>,
      <<"u0e2a", "u0e34", "u0e19", "u0e04", "u0e49", "u0e32", "u0e2b", "u0e21", "u0e14">>,
      <<"u0e44", "u0e21", "u0e48", "u0e21", "u0e35", "u0e2a", "u0e34", "u0e19", "u0e04", "u0e49", "u0e32">>,
      <<"u0e44", "u0e21", "u0e48", "u0e21", "u0e35", "u0e02", "u0e2d", "u0e07">>,
      <<"u0e02", "u0e32", "u0e22", "u0e2b", "u0e21", "u0e14">> }

StatusAlphabet == {"n", "o", "1", " "}

StatusInputs ==
    ListedStatusTexts \cup TextsUpTo(StatusAlphabet, MaxStatusLen) \cup {None} \cup NonStrings

\* phrases a caller adds with add_custom_patterns
CustomInStock == {Chars("preorder")}
CustomOutOfStock == {Chars("order")}

\* an argument of add_custom_patterns: None (NoPatterns) or a list of phrases
NoPatterns == <<None>>
CustomArgs(phrases) == {NoPatterns} \cup {<<p>> : p \in phrases}

ZeroNormalizationStats ==
    [total_normalized |-> 0, in_stock_normalized |-> 0, out_of_stock_normalized |-> 0,
     unknown_status |-> 0, pattern_matches |-> {}]

InitStock ==
    /\ in_stock_patterns = DefaultInStockPatterns
    /\ out_of_stock_patterns = DefaultOutOfStockPatterns
    /\ normalization_stats = ZeroNormalizationStats
    /\ sn_status \in StatusInputs
    /\ sn_result = Pending
    /\ sn_adds = 0

\* the counters after normalize_stock_status(status) returned (or raised) result
StatsAfterNormalize(counters, status, result) ==
    IF Falsy(status)
    THEN [counters EXCEPT !.unknown_status = @ + 1]
    ELSE LET counted == [counters EXCEPT !.total_normalized = @ + 1]
             \* _track_pattern_match: the first classification of a text is kept
             tracked == IF \E m \in counted.pattern_matches : m[1] = status
                        THEN counted.pattern_matches
                        ELSE counted.pattern_matches \cup {<<status, result>>}
         IN  CASE result = OutOfStock ->
                    [counted EXCEPT !.out_of_stock_normalized = @ + 1, !.pattern_matches = tracked]
               [] result = InStock ->
                    [counted EXCEPT !.in_stock_normalized = @ + 1, !.pattern_matches = tracked]
               [] result = Unknown -> [counted EXCEPT !.unknown_status = @ + 1]
               [] OTHER -> counted

\* normalizer.normalize_stock_status(sn_status)
NormalizeStockStatus ==
    /\ sn_result = Pending
    /\ LET result == normalize_stock_status(sn_status, out_of_stock_patterns, in_stock_patterns)
       IN  /\ sn_result' = result
           /\ normalization_stats' = StatsAfterNormalize(normalization_stats, sn_status, result)
    /\ UNCHANGED <<in_stock_patterns, out_of_stock_patterns, sn_status, sn_adds>>
    /\ UNCHANGED <<producerVars, priceVars, collectorsVars>>

\* normalizer.add_custom_patterns(in_arg, out_arg), called before the status is normalized
AddCustomPatterns ==
    /\ sn_result = Pending
    /\ sn_adds < MaxCustomAdds
    /\ \E in_arg \in CustomArgs(CustomInStock), out_arg \in CustomArgs(CustomOutOfStock) :
          /\ in_stock_patterns' =
                IF in_arg = NoPatterns THEN in_stock_patterns ELSE in_stock_patterns \o in_arg
          /\ out_of_stock_patterns' =
                IF out_arg = NoPatterns THEN out_of_stock_patterns ELSE out_of_stock_patterns \o out_arg
    /\ sn_adds' = sn_adds + 1
    /\ UNCHANGED <<normalization_stats, sn_status, sn_result>>
    /\ UNCHANGED <<producerVars, priceVars, collectorsVars>>

\* the normalizer is not used on its own
InitStockIdle ==
    /\ in_stock_patterns = DefaultInStockPatterns
    /\ out_of_stock_patterns = DefaultOutOfStockPatterns
    /\ normalization_stats = ZeroNormalizationStats
    /\ sn_status = None
    /\ sn_result = Pending
    /\ sn_adds = 0

\* the price parser is not used on its own
NotCalled == [ok |-> FALSE, kind |-> "pending", negative |-> FALSE, cents |-> 0]

InitPriceIdle ==
    /\ price_input = None
    /\ price_cleaned = None
    /\ price_parsed = NotCalled
    /\ price_reparsed = NotCalled

(***************************************************************************)
(* DataOrganizer (collectors/data_organizer.py).  files_created is held as *)
(* the number of paths in the list.                                        *)
(***************************************************************************)
SessionIds == {Chars("s1"), Chars("s2"), Chars("s3")}

\* self.session_metadata = {}, and a metadata file that does not exist
NoMetadata == [session_id |-> None, status |-> "", files_created |-> 0, files_count |-> 0]

NoCall == [op |-> "", session_id |-> None, was_current |-> FALSE]

\* a new DataOrganizer over an empty data directory
InitOrganizer ==
    /\ current_session_id = None
    /\ session_metadata = NoMetadata
    /\ metadata_files = [id \in SessionIds |-> NoMetadata]
    /\ organizer_call = NoCall

\* _update_session_metadata: the metadata file of the current session is rewritten
_update_session_metadata(current, metadata) ==
    IF Falsy(current) THEN metadata_files
    ELSE [metadata_files EXCEPT ![current] = metadata]

start_session(session_id) ==
    /\ current_session_id' = session_id
    /\ session_metadata' = [NoMetadata EXCEPT !.session_id = session_id, !.status = "active"]
    /\ metadata_files' = [metadata_files EXCEPT ![session_id] = session_metadata']
    /\ organizer_call' = [op |-> "start_session", session_id |-> session_id,
                          was_current |-> session_id = current_session_id]
    /\ UNCHANGED <<stockVars, producerVars, priceVars>>

\* save_search_results(search_term, data, session_id): the session's metadata is
\* brought up to date only for the current session
save_search_results(session_id) ==
    /\ IF session_id = current_session_id
       THEN /\ session_metadata' = [session_metadata EXCEPT !.files_created = @ + 1]
            /\ metadata_files' = _update_session_metadata(current_session_id, session_metadata')
       ELSE UNCHANGED <<session_metadata, metadata_files>>
    /\ organizer_call' = [op |-> "save_search_results", session_id |-> session_id,
                          was_current |-> session_id = current_session_id]
    /\ UNCHANGED current_session_id
    /\ UNCHANGED <<stockVars, producerVars, priceVars>>

end_session(session_id) ==
    /\ IF session_id = current_session_id
       THEN /\ metadata_files' =
                  _update_session_metadata(
                      current_session_id,
                      [session_metadata EXCEPT !.status = "completed",
                                               !.files_count = session_metadata.files_created])
            /\ current_session_id' = None
            /\ session_metadata' = NoMetadata
       ELSE UNCHANGED <<current_session_id, session_metadata, metadata_files>>
    /\ organizer_call' = [op |-> "end_session", session_id |-> session_id,
                          was_current |-> session_id = current_session_id]
    /\ UNCHANGED <<stockVars, producerVars, priceVars>>

(***************************************************************************)
(* ManualCollector (collectors/manual_collector.py).  What the browser     *)
(* does in _collect_single_search_term is an input: the call raises,       *)
(* returns None, or saves a file through the organizer and returns its     *)
(* path.                                                                   *)
(***************************************************************************)
\* CollectionSession().session_id at one reading of the clock
CollectorSessionId == Chars("s1")

NoOutcome == [kind |-> "", value |-> 0]

\* a ManualCollector before collect_search_data is called
InitCollector ==
    /\ collect_pc = "Idle"
    /\ term_idx = 0
    /\ attempt = 0
    /\ last_error = 0
    /\ retry_outcome = NoOutcome
    /\ attempt_outcomes = <<>>
    /\ search_terms_processed = <<>>
    /\ search_terms_failed = <<>>
    /\ session_errors = <<>>
    /\ results = {}

\* the collector is not used
InitCollectorIdle ==
    /\ InitCollector
    /\ search_terms = <<>>
    /\ max_retries = 0

\* a variant of AnotherAttempt, which the properties must tell apart
AnotherAttemptAlways(this_attempt, limit) == this_attempt < limit

\* "if attempt < self.max_retries - 1" in the except clause of the retry loop
AnotherAttempt(this_attempt, limit) == this_attempt < limit - 1

\* collect_search_data is called: a new session is started in the organizer, the
\* browser context is set up and the homepage loaded, or that fails
CollectSearchData ==
    /\ collect_pc = "Idle"
    /\ start_session(CollectorSessionId)
    /\ \E browser_ready \in BOOLEAN :
          IF browser_ready
          THEN /\ collect_pc' = "Terms"
               /\ term_idx' = 1
               /\ UNCHANGED session_errors
          ELSE /\ collect_pc' = "Finishing"
               /\ session_errors' = Append(session_errors, "Critical error")
               /\ UNCHANGED term_idx
    /\ UNCHANGED <<search_terms, max_retries, attempt, last_error, retry_outcome,
                   attempt_outcomes, search_terms_processed, search_terms_failed, results>>

\* the head of the loop over search_terms: start_search_term and the call of
\* _collect_single_search_term_with_retry, or the end of the loop
StartSearchTerm ==
    /\ collect_pc = "Terms"
    /\ IF term_idx <= Len(search_terms)
       THEN /\ collect_pc' = "Retrying"
            /\ attempt' = 0
            /\ last_error' = 0
            /\ attempt_outcomes' = <<>>
            /\ retry_outcome' = NoOutcome
       ELSE /\ collect_pc' = "Finishing"
            /\ UNCHANGED <<attempt, last_error, attempt_outcomes, retry_outcome>>
    /\ UNCHANGED <<search_terms, max_retries, term_idx, search_terms_processed,
                   search_terms_failed, session_errors, results>>
    /\ UNCHANGED <<stockVars, producerVars, priceVars, organizerVars>>

\* one turn of "for attempt in range(self.max_retries)", or "return None" after it
CollectAttempt ==
    /\ collect_pc = "Retrying"
    /\ IF attempt < max_retries
       THEN \E outcome \in {"raise", "none", "file"} :
               /\ attempt_outcomes' = Append(attempt_outcomes, outcome)
               /\ IF outcome = "file"
                  THEN save_search_results(CollectorSessionId)
                  ELSE UNCHANGED <<stockVars, producerVars, priceVars, organizerVars>>
               /\ IF outcome # "raise"
                  THEN /\ retry_outcome' = [kind |-> "returned", value |-> outcome]
                       /\ collect_pc' = "Handling"
                       /\ UNCHANGED <<attempt, last_error>>
                  ELSE /\ last_error' = attempt + 1
                       /\ IF AnotherAttempt(attempt, max_retries)
                          THEN /\ attempt' = attempt + 1
                               /\ UNCHANGED <<retry_outcome, collect_pc>>
                          ELSE /\ retry_outcome' = [kind |-> "raised", value |-> last_error']
                               /\ collect_pc' = "Handling"
                               /\ UNCHANGED attempt
       ELSE /\ retry_outcome' = [kind |-> "returned", value |-> "none"]
            /\ collect_pc' = "Handling"
            /\ UNCHANGED <<attempt, last_error, attempt_outcomes>>
            /\ UNCHANGED <<stockVars, producerVars, priceVars, organizerVars>>
    /\ UNCHANGED <<search_terms, max_retries, term_idx, search_terms_processed,
                   search_terms_failed, session_errors, results>>

\* back in collect_search_data: complete_search_term for a file path,
\* fail_search_term for None and in the except clause
FinishSearchTerm ==
    /\ collect_pc = "Handling"
    /\ IF retry_outcome.kind = "returned" /\ retry_outcome.value = "file"
       THEN /\ results' = results \cup {search_terms[term_idx]}
            /\ search_terms_processed' = Append(search_terms_processed, search_terms[term_idx])
            /\ UNCHANGED <<search_terms_failed, session_errors>>
       ELSE /\ search_terms_failed' = Append(search_terms_failed, search_terms[term_idx])
            /\ session_errors' =
                  Append(session_errors,
                         IF retry_outcome.kind = "raised" THEN "Failed to collect data"
                         ELSE "No data collected")
            /\ UNCHANGED <<results, search_terms_processed>>
    /\ term_idx' = term_idx + 1
    /\ collect_pc' = "Terms"
    /\ UNCHANGED <<search_terms, max_retries, attempt, last_error, retry_outcome,
                   attempt_outcomes>>
    /\ UNCHANGED <<stockVars, producerVars, priceVars, organizerVars>>

\* the finally clause: the session is ended in the organizer and results returned
FinishCollection ==
    /\ collect_pc = "Finishing"
    /\ end_session(CollectorSessionId)
    /\ collect_pc' = "Done"
    /\ UNCHANGED <<search_terms, max_retries, term_idx, attempt, last_error, retry_outcome,
                   attempt_outcomes, search_terms_processed, search_terms_failed,
                   session_errors, results>>

InitCollectorsIdle == InitOrganizer /\ InitCollectorIdle

(***************************************************************************)
(* DataProducer (producers/data_producer.py).                              *)
(***************************************************************************)
\* candidates of the repository's tests and of the end-to-end scenario
GalaxyCandidate ==
    [NoCandidate EXCEPT !.name = Chars("Galaxy S24 Ultra"), !.sku = Chars("295649"),
                        !.price = Chars("30400")]
BadPriceCandidate ==
    [NoCandidate EXCEPT !.name = Chars("Y"), !.sku = Chars("X"),
                        !.price = Chars("not_a_number")]
IPhoneCandidate ==
    [NoCandidate EXCEPT !.name = Chars("iPhone 15 Pro"), !.sku = Chars("ip15pm001"),
                        !.price = Chars("45,900.00"), !.stock_status = Chars("In Stock")]
PriceOnlyCandidate == [NoCandidate EXCEPT !.price = Chars("200")]

\* what a *.json file of the input directory holds
MalformedFile == [kind |-> "malformed", doc |-> EmptyDoc, items |-> <<>>]
ScalarFile == [kind |-> "scalar", doc |-> EmptyDoc, items |-> <<>>]
ObjectFile(doc) == [kind |-> "object", doc |-> doc, items |-> <<>>]
ArrayFile(items) == [kind |-> "array", doc |-> EmptyDoc, items |-> items]

FileContents ==
    { MalformedFile, ScalarFile,
      ObjectFile(EmptyDoc),
      ObjectFile([EmptyDoc EXCEPT !.products_kind = "list",
                                  !.products = <<GalaxyCandidate, BadPriceCandidate>>]),
      ObjectFile([EmptyDoc EXCEPT !.products_kind = "list", !.products = <<BadPriceCandidate>>]),
      ObjectFile([EmptyDoc EXCEPT !.products_kind = "list", !.products = <<PriceOnlyCandidate>>]),
      ObjectFile([EmptyDoc EXCEPT !.nested_kind = "list", !.nested = <<GalaxyCandidate>>]),
      ObjectFile([EmptyDoc EXCEPT !.self = IPhoneCandidate]),
      ArrayFile(<<IPhoneCandidate>>) }

RECURSIVE ListsUpTo(_, _)
ListsUpTo(S, n) ==
    IF n = 0 THEN {<<>>}
    ELSE LET shorter == ListsUpTo(S, n - 1)
         IN  shorter \cup {Append(l, x) : l \in shorter, x \in S}

ZeroStats ==
    [files_processed |-> 0, files_failed |-> 0, products_extracted |-> 0,
     successful_validations |-> 0, validation_failures |-> 0,
     json_parse_errors |-> 0, csv_export_errors |-> 0,
     errors |-> <<>>, warnings |-> <<>>]
ZeroParserStats == [products_extracted |-> 0, extraction_errors |-> 0, parsing_errors |-> <<>>]
ZeroTransformerStats ==
    [transformations_attempted |-> 0, transformations_successful |-> 0,
     transformation_errors |-> 0, error_details |-> <<>>]

\* a new DataProducer, before process_complete_pipeline is called
InitProducer ==
    /\ pc = "Idle"
    /\ stats = ZeroStats
    /\ parser_stats = ZeroParserStats
    /\ transformer_stats = ZeroTransformerStats
    /\ raw_data = <<>>
    /\ raw_products = <<>>
    /\ validated_products = <<>>
    /\ file_idx = 0
    /\ doc_idx = 0
    /\ rec_idx = 0
    /\ output_rows = <<>>
    /\ output_columns = <<>>
    /\ runs = 0
    /\ returned = FALSE
    /\ raised = 0
    /\ stages = <<>>

\* variants of the definitions below, which the properties must tell apart
NeverEmpty(list) == FALSE

LoadFailureUncounted(current_stats) ==
    [current_stats EXCEPT !.errors = Append(@, "Failed to process file")]

FailSilently ==
    /\ stats' = [stats EXCEPT !.errors = Append(@, "Pipeline execution failed")]
    /\ raised' = raised
    /\ pc' = "FailedFatally"

FailCountingExport ==
    /\ stats' = [stats EXCEPT !.errors = Append(@, "Pipeline execution failed"),
                              !.csv_export_errors = @ + 1]
    /\ raised' = raised + 1
    /\ pc' = "FailedFatally"

FailResetting ==
    /\ stats' = [ZeroStats EXCEPT !.errors = <<"Pipeline execution failed">>]
    /\ raised' = raised + 1
    /\ pc' = "FailedFatally"

\* "if not raw_data", "if not raw_products", "if not validated_products" and
\* "if not products"
IsEmpty(list) == list = <<>>

\* the checks of the directory at the head of load_raw_data
DirectoryUsable(dir) == dir = "dir"

\* the except clause of load_raw_data's loop: the file is counted and skipped
LoadFailureStats(current_stats) ==
    [current_stats EXCEPT !.files_failed = @ + 1,
                          !.errors = Append(@, "Failed to process file")]

\* the except clause of process_complete_pipeline: the error is appended to
\* stats['errors'] and one RuntimeError is raised
FailFatally ==
    /\ stats' = [stats EXCEPT !.errors = Append(@, "Pipeline execution failed")]
    /\ raised' = raised + 1
    /\ pc' = "FailedFatally"

\* process_complete_pipeline is called: load_raw_data checks the directory and lists
\* its *.json files
StartPipeline ==
    /\ pc = "Idle"
    /\ runs' = runs + 1
    /\ stages' = Append(stages, "Loading")
    /\ IF ~DirectoryUsable(dir_state)
       THEN /\ pc' = "Aborting"
            /\ UNCHANGED <<stats, file_idx>>
       ELSE /\ pc' = "Loading"
            /\ file_idx' = 1
            /\ UNCHANGED stats
    /\ UNCHANGED raised
    /\ UNCHANGED <<dir_state, files, parser_stats, transformer_stats, raw_data, raw_products,
                   validated_products, doc_idx, rec_idx, output_rows, returned>>
    /\ UNCHANGED <<stockVars, priceVars, output_columns, output_writable, collectorsVars>>

\* the document _load_single_json_file appends to raw_data
LoadedDocument(file) ==
    IF file.kind = "array"
    THEN [EmptyDoc EXCEPT !.kind = "array", !.items = file.items]
    ELSE file.doc

\* one turn of the loop of load_raw_data: _load_single_json_file and its except clause
LoadFile ==
    /\ pc = "Loading"
    /\ file_idx <= Len(files)
    /\ LET file == files[file_idx]
       IN  CASE file.kind = "malformed" ->
                  /\ stats' = LoadFailureStats([stats EXCEPT !.json_parse_errors = @ + 1])
                  /\ UNCHANGED raw_data
             [] file.kind = "scalar" ->
                  /\ stats' = LoadFailureStats(stats)
                  /\ UNCHANGED raw_data
             [] OTHER ->
                  /\ raw_data' = Append(raw_data, LoadedDocument(file))
                  /\ stats' = [stats EXCEPT !.files_processed = @ + 1]
    /\ file_idx' = file_idx + 1
    /\ UNCHANGED <<dir_state, files, pc, parser_stats, transformer_stats, raw_products,
                   validated_products, doc_idx, rec_idx, output_rows, returned, raised, stages>>
    /\ UNCHANGED <<stockVars, priceVars, output_columns, output_writable, runs, collectorsVars>>

\* load_raw_data returns; "if not raw_data" and the call of process_products
FinishLoading ==
    /\ pc = "Loading"
    /\ file_idx > Len(files)
    /\ IF IsEmpty(raw_data)
       THEN /\ pc' = "Aborting"
            /\ UNCHANGED <<doc_idx, stages>>
       ELSE /\ pc' = "Extracting"
            /\ doc_idx' = 1
            /\ stages' = Append(stages, "Extracting")
    /\ UNCHANGED <<stats, raised>>
    /\ UNCHANGED <<dir_state, files, parser_stats, transformer_stats, raw_data, raw_products,
                   validated_products, file_idx, rec_idx, output_rows, returned>>
    /\ UNCHANGED <<stockVars, priceVars, output_columns, output_writable, runs, collectorsVars>>

\* one turn of the loop of process_products
ExtractDocument ==
    /\ pc = "Extracting"
    /\ doc_idx <= Len(raw_data)
    /\ LET extracted == extract_products_from_json(raw_data[doc_idx])
       IN  /\ parser_stats' = [parser_stats EXCEPT
                                  !.products_extracted = @ + extracted.found,
                                  !.extraction_errors = @ + extracted.errors,
                                  !.parsing_errors = @ \o extracted.parsing_errors]
           /\ raw_products' = raw_products \o extracted.products
           /\ stats' = IF extracted.products = <<>>
                       THEN [stats EXCEPT !.warnings = Append(@, "No products found")]
                       ELSE stats
    /\ doc_idx' = doc_idx + 1
    /\ UNCHANGED <<dir_state, files, pc, transformer_stats, raw_data, validated_products,
                   file_idx, rec_idx, output_rows, returned, raised, stages>>
    /\ UNCHANGED <<stockVars, priceVars, output_columns, output_writable, runs, collectorsVars>>

\* process_products returns; "if not raw_products" and the call of validate_data
FinishExtracting ==
    /\ pc = "Extracting"
    /\ doc_idx > Len(raw_data)
    /\ stats' = [stats EXCEPT !.products_extracted = Len(raw_products)]
    /\ IF IsEmpty(raw_products)
       THEN /\ pc' = "Aborting"
            /\ UNCHANGED <<rec_idx, stages>>
       ELSE /\ pc' = "Validating"
            /\ rec_idx' = 1
            /\ stages' = Append(stages, "Validating")
    /\ UNCHANGED raised
    /\ UNCHANGED <<dir_state, files, parser_stats, transformer_stats, raw_data, raw_products,
                   validated_products, file_idx, doc_idx, output_rows, returned>>
    /\ UNCHANGED <<stockVars, priceVars, output_columns, output_writable, runs, collectorsVars>>

\* a variant of TransformRecord, which the properties must tell apart: a record that
\* fails ends the loop
TransformRecordOrStop ==
    /\ pc = "Validating"
    /\ rec_idx <= Len(raw_products)
    /\ LET validated_product == _transform_single_product(raw_products[rec_idx])
           attempted == [transformer_stats EXCEPT !.transformations_attempted = @ + 1]
       IN  IF validated_product.ok
           THEN /\ validated_products' = Append(validated_products, validated_product)
                /\ transformer_stats' = [attempted EXCEPT !.transformations_successful = @ + 1]
           ELSE /\ transformer_stats' =
                      [attempted EXCEPT !.transformation_errors = @ + 1,
                                        !.error_details = Append(@, "Transformation failed")]
                /\ UNCHANGED validated_products
    /\ rec_idx' = IF _transform_single_product(raw_products[rec_idx]).ok
                   THEN rec_idx + 1 ELSE Len(raw_products) + 1
    /\ UNCHANGED <<dir_state, files, pc, stats, parser_stats, raw_data, raw_products,
                   file_idx, doc_idx, output_rows, returned, raised, stages>>
    /\ UNCHANGED <<stockVars, priceVars, output_columns, output_writable, runs, collectorsVars>>

\* one turn of the loop of transform_to_product_data
TransformRecord ==
    /\ pc = "Validating"
    /\ rec_idx <= Len(raw_products)
    /\ LET validated_product == _transform_single_product(raw_products[rec_idx])
           attempted == [transformer_stats EXCEPT !.transformations_attempted = @ + 1]
       IN  IF validated_product.ok
           THEN /\ validated_products' = Append(validated_products, validated_product)
                /\ transformer_stats' = [attempted EXCEPT !.transformations_successful = @ + 1]
           ELSE /\ transformer_stats' =
                      [attempted EXCEPT !.transformation_errors = @ + 1,
                                        !.error_details = Append(@, "Transformation failed")]
                /\ UNCHANGED validated_products
    /\ rec_idx' = rec_idx + 1
    /\ UNCHANGED <<dir_state, files, pc, stats, parser_stats, raw_data, raw_products,
                   file_idx, doc_idx, output_rows, returned, raised, stages>>
    /\ UNCHANGED <<stockVars, priceVars, output_columns, output_writable, runs, collectorsVars>>

\* transform_to_product_data returns to validate_data, which copies the transformer's
\* counters and error details; "if not validated_products" and the call of export_csv
FinishValidating ==
    /\ pc = "Validating"
    /\ rec_idx > Len(raw_products)
    /\ stats' = [stats EXCEPT
                    !.successful_validations = transformer_stats.transformations_successful,
                    !.validation_failures = transformer_stats.transformation_errors,
                    !.errors = @ \o transformer_stats.error_details]
    /\ IF IsEmpty(validated_products)
       THEN /\ pc' = "Aborting"
            /\ UNCHANGED stages
       ELSE /\ pc' = "Exporting"
            /\ stages' = Append(stages, "Exporting")
    /\ UNCHANGED raised
    /\ UNCHANGED <<dir_state, files, parser_stats, transformer_stats, raw_data, raw_products,
                   validated_products, file_idx, doc_idx, rec_idx, output_rows, returned>>
    /\ UNCHANGED <<stockVars, priceVars, output_columns, output_writable, runs, collectorsVars>>

\* a <= b for Python strings, by ord() of the characters a normalized SKU can hold; a
\* Thai letter is written "u0eXX"
TextLessEq(a, b) ==
    LET HexValue(c) ==
            IF c \in Digits THEN DigitValue[c]
            ELSE 9 + (CHOOSE i \in 1..6 : LowerLetters[i] = c)
        CodePoint(c) ==
            IF c = "-" THEN 45
            ELSE IF c \in Digits THEN 48 + DigitValue[c]
            ELSE IF c \in UpperSet THEN 64 + (CHOOSE i \in 1..26 : UpperLetters[i] = c)
            ELSE IF c = "_" THEN 95
            ELSE IF c \in LowerSet THEN 96 + (CHOOSE i \in 1..26 : LowerLetters[i] = c)
            ELSE 3584 + 16 * HexValue(SubSeq(c, 4, 4)) + HexValue(SubSeq(c, 5, 5))
    IN  \/ \E i \in 1..Len(a) :
              /\ i <= Len(b)
              /\ SubSeq(a, 1, i - 1) = SubSeq(b, 1, i - 1)
              /\ CodePoint(a[i]) < CodePoint(b[i])
        \/ (Len(a) <= Len(b) /\ SubSeq(b, 1, Len(a)) = a)

\* a variant of InsertAt, which the properties must tell apart
InsertFirst(rows, k, row) == <<row>> \o rows

InsertAt(rows, k, row) == SubSeq(rows, 1, k) \o <<row>> \o SubSeq(rows, k + 1, Len(rows))

\* the keys of the row dict of one product, in the order they are set
RowKeys(product) ==
    <<"Name", "SKU", "Price", "Stock Status">>
    \o (IF Falsy(product.brand) THEN <<>> ELSE <<"Brand">>)
    \o (IF Falsy(product.category) THEN <<>> ELSE <<"Category">>)
    \o (IF Falsy(product.data_source) THEN <<>> ELSE <<"Source">>)

\* the row of one product in the DataFrame: the price as f"{x:.2f}", NaN in a column
\* for which the dict of the product has no key
DataRow(product) ==
    LET RECURSIVE NatToDigits(_)
        NatToDigits(n) ==
            IF n < 10 THEN <<Chars("0123456789")[n + 1]>>
            ELSE NatToDigits(n \div 10) \o <<Chars("0123456789")[(n % 10) + 1]>>
        FormatPrice(price_thb) ==
            NatToDigits(price_thb \div 100) \o <<".">>
            \o NatToDigits((price_thb % 100) \div 10) \o NatToDigits(price_thb % 10)
        Cell(value) == IF Falsy(value) THEN <<"NAN">> ELSE value
    IN  [Name |-> product.name, SKU |-> product.sku,
         Price |-> FormatPrice(product.price_thb), StockStatus |-> product.stock_status,
         Brand |-> Cell(product.brand), Category |-> Cell(product.category),
         Source |-> Cell(product.data_source)]

\* a variant of DataRows, which the properties must tell apart
DataRowsButLast(products) == [i \in 1..(Len(products) - 1) |-> DataRow(products[i])]

\* data_rows
DataRows(products) == [i \in 1..Len(products) |-> DataRow(products[i])]

\* pd.DataFrame(data_rows) takes its columns from the keys of the dicts in the order
\* in which it first meets them
AddKeys(columns, keys) ==
    columns \o SelectSeq(keys, LAMBDA key : \A i \in 1..Len(columns) : columns[i] # key)

RECURSIVE DataFrameColumns(_)
DataFrameColumns(products) ==
    IF products = <<>> THEN <<>>
    ELSE AddKeys(DataFrameColumns(SubSeq(products, 1, Len(products) - 1)),
                 RowKeys(products[Len(products)]))

\* df.sort_values('SKU'): the orders of the rows that ascend by SKU (the sort is
\* not stable, so rows of one SKU come in any order)
RECURSIVE SortedBySku(_)
SortedBySku(data_rows) ==
    IF data_rows = <<>> THEN {<<>>}
    ELSE LET row == Head(data_rows)
         IN  UNION { { InsertAt(rows, k, row) :
                         k \in { j \in 0..Len(rows) :
                                   /\ \A i \in 1..j : TextLessEq(rows[i].SKU, row.SKU)
                                   /\ \A i \in (j + 1)..Len(rows) : TextLessEq(row.SKU, rows[i].SKU) } } :
                     rows \in SortedBySku(Tail(data_rows)) }

\* _create_dataframe_from_products: the frames it can give
_create_dataframe_from_products(products) ==
    { [columns |-> DataFrameColumns(products), rows |-> rows] :
        rows \in SortedBySku(DataRows(products)) }

\* export_csv: its outcomes.  An empty list is refused before the try block; a
\* failure inside it is counted, recorded and raised as RuntimeError
export_csv(products, writable) ==
    LET NoFrame == [columns |-> <<>>, rows |-> <<>>]
    IN
    IF IsEmpty(products)
    THEN { [exc |-> "ValueError", counted |-> FALSE, df |-> NoFrame] }
    ELSE IF ~writable
    THEN { [exc |-> "RuntimeError", counted |-> TRUE, df |-> NoFrame] }
    ELSE { [exc |-> "", counted |-> FALSE, df |-> df] :
             df \in _create_dataframe_from_products(products) }

\* what the except clause of export_csv does to the producer's stats
ExportFailureStats(current_stats, outcome) ==
    IF outcome.counted
    THEN [current_stats EXCEPT !.csv_export_errors = @ + 1,
                               !.errors = Append(@, "CSV export failed")]
    ELSE current_stats

\* export_csv and the return of process_complete_pipeline
ExportCsv ==
    /\ pc = "Exporting"
    /\ \E outcome \in export_csv(validated_products, output_writable) :
          /\ stats' = ExportFailureStats(stats, outcome)
          /\ IF outcome.exc = ""
             THEN /\ output_rows' = outcome.df.rows
                  /\ output_columns' = outcome.df.columns
                  /\ returned' = TRUE
                  /\ pc' = "Completed"
             ELSE /\ pc' = "Aborting"
                  /\ UNCHANGED <<output_rows, output_columns, returned>>
    /\ UNCHANGED <<raised, output_writable>>
    /\ UNCHANGED <<dir_state, files, parser_stats, transformer_stats, raw_data, raw_products,
                   validated_products, file_idx, doc_idx, rec_idx, stages>>
    /\ UNCHANGED <<stockVars, priceVars, runs, collectorsVars>>

\* the RuntimeError of a stage, or the one raised after it, reaches the except clause
Abort ==
    /\ pc = "Aborting"
    /\ FailFatally
    /\ UNCHANGED <<dir_state, files, parser_stats, transformer_stats, raw_data, raw_products,
                   validated_products, file_idx, doc_idx, rec_idx, output_rows, returned, stages>>
    /\ UNCHANGED <<stockVars, priceVars, output_columns, output_writable, runs, collectorsVars>>

\* transform_to_product_data called on its own returns the validated list
TransformReturn ==
    /\ pc = "Validating"
    /\ rec_idx > Len(raw_products)
    /\ pc' = "Returned"
    /\ UNCHANGED <<dir_state, files, stats, parser_stats, transformer_stats, raw_data,
                   raw_products, validated_products, file_idx, doc_idx, rec_idx, output_rows,
                   returned, raised, stages>>
    /\ UNCHANGED <<stockVars, priceVars, output_columns, output_writable, runs, collectorsVars>>

(***************************************************************************)
(* The specifications.                                                     *)
(***************************************************************************)
vars == <<stockVars, producerVars, priceVars, collectorsVars>>

\* Spec: one call of process_complete_pipeline on a new DataProducer
Init ==
    /\ InitCollectorsIdle
    /\ InitStockIdle
    /\ InitPriceIdle
    /\ InitProducer
    /\ output_writable \in BOOLEAN
    /\ dir_state \in {"missing", "file", "dir"}
    /\ files \in ListsUpTo(FileContents, MaxFiles)
    /\ (dir_state # "dir" => files = <<>>)

Next ==
    \/ StartPipeline
    \/ LoadFile
    \/ FinishLoading
    \/ ExtractDocument
    \/ FinishExtracting
    \/ TransformRecord
    \/ FinishValidating
    \/ ExportCsv
    \/ Abort

Spec == Init /\ [][Next]_vars

\* SpecRuns: process_complete_pipeline called several times on one DataProducer,
\* without reset_stats in between
RunDirectories ==
    { <<>>,
      <<ObjectFile([EmptyDoc EXCEPT !.products_kind = "list",
                                    !.products = <<GalaxyCandidate, BadPriceCandidate>>])>>,
      <<ObjectFile([EmptyDoc EXCEPT !.products_kind = "list",
                                    !.products = <<BadPriceCandidate>>])>>,
      <<ArrayFile(<<IPhoneCandidate>>)>> }

InitRuns ==
    /\ InitCollectorsIdle
    /\ InitStockIdle
    /\ InitPriceIdle
    /\ InitProducer
    /\ output_writable = TRUE
    /\ files \in RunDirectories
    /\ dir_state = IF files = <<>> THEN "missing" ELSE "dir"

\* the call returned or raised and process_complete_pipeline is called again: its
\* local lists are new, the counters of the producer, the parser and the
\* transformer are the ones the earlier calls left
CallAgain ==
    /\ pc \in {"Completed", "FailedFatally"}
    /\ runs < MaxRuns
    /\ pc' = "Idle"
    /\ files' \in RunDirectories
    /\ dir_state' = IF files' = <<>> THEN "missing" ELSE "dir"
    /\ raw_data' = <<>>
    /\ raw_products' = <<>>
    /\ validated_products' = <<>>
    /\ file_idx' = 0
    /\ doc_idx' = 0
    /\ rec_idx' = 0
    /\ returned' = FALSE
    /\ raised' = 0
    /\ stages' = <<>>
    /\ UNCHANGED <<stats, parser_stats, transformer_stats, output_rows, output_columns,
                   output_writable, runs>>
    /\ UNCHANGED <<stockVars, priceVars, collectorsVars>>

SpecRuns == InitRuns /\ [][Next \/ CallAgain]_vars

\* SpecTransform: transform_to_product_data called on a list of RawProductData objects
BaseRawRecord ==
    [name |-> Chars("Galaxy S24 Ultra"), sku |-> Chars("295649"),
     price |-> Chars("30400"), stock_status |-> None]

LongName == [i \in 1..RawNameMaxLen |-> IF i % 7 = 0 THEN " " ELSE "a"]
LongSku == [i \in 1..RawSkuMaxLen |-> IF i % 5 = 0 THEN "." ELSE "k"]

RawNames ==
    { Chars("Y"), <<"\"">>, <<"\"", "\"">>, <<"a", "TAB", "b">>, <<"a", "\"", "LF", "b">>, LongName }
RawSkus ==
    { Chars("ip15 pm-01_a"), Chars("!!"), Chars("x"), LongSku,
      <<"u0e01", "u0e34", "1">>, <<"u0e34">> }
RawPrices ==
    { None, Chars("not_a_number"), Chars("-5"), Chars("0"), Chars("45,900.00"),
      Chars("1000000.01"), Chars("nan"), <<"u0e3f", "1", "9", "9", ".", "5">> }
RawStatuses ==
    { Chars("In Stock"), Chars("unavailable"), Chars("unknown"), Chars("sold out"), <<>> }

\* the RawProductData objects that construct, of a record that differs from
\* BaseRawRecord in at most one field
RawRecords ==
    LET candidates ==
            {BaseRawRecord}
            \cup {[BaseRawRecord EXCEPT !.name = n] : n \in RawNames}
            \cup {[BaseRawRecord EXCEPT !.sku = k] : k \in RawSkus}
            \cup {[BaseRawRecord EXCEPT !.price = p] : p \in RawPrices}
            \cup {[BaseRawRecord EXCEPT !.stock_status = t] : t \in RawStatuses}
        built == {RawProductData(c.name, c.sku, c.price, c.stock_status, TRUE) : c \in candidates}
    IN  {r \in built : r.ok}

InitTransform ==
    /\ InitCollectorsIdle
    /\ InitStockIdle
    /\ InitPriceIdle
    /\ dir_state = "dir"
    /\ files = <<>>
    /\ pc = "Validating"
    /\ stats = ZeroStats
    /\ parser_stats = ZeroParserStats
    /\ transformer_stats = ZeroTransformerStats
    /\ raw_data = <<>>
    /\ raw_products \in ListsUpTo(RawRecords, MaxRaw)
    /\ validated_products = <<>>
    /\ file_idx = 0
    /\ doc_idx = 0
    /\ rec_idx = 1
    /\ output_rows = <<>>
    /\ output_columns = <<>>
    /\ runs = 0
    /\ output_writable = TRUE
    /\ returned = FALSE
    /\ raised = 0
    /\ stages = <<>>

NextTransform == TransformRecord \/ TransformReturn

SpecTransform == InitTransform /\ [][NextTransform]_vars

\* SpecStock: one StockStatusNormalizer classifying one status
InitStockSpec ==
    /\ InitCollectorsIdle
    /\ InitStock
    /\ InitPriceIdle
    /\ InitProducer
    /\ output_writable = TRUE
    /\ dir_state = "dir"
    /\ files = <<>>

NextStock == NormalizeStockStatus \/ AddCustomPatterns

SpecStock == InitStockSpec /\ [][NextStock]_vars

\* SpecExtract: extract_products_from_json called once, on a new PowerBuyJSONParser,
\* with one JSON value: the values of the repository's tests and values of every
\* other shape
Documents ==
    LET Values(texts) == {None} \cup {Chars(t) : t \in texts}
        TestCandidate ==
            [NoCandidate EXCEPT !.name = Chars("Test Product"), !.sku = Chars("TEST001")]
        \* an item that is a JSON string, and one that is a number or null
        StringItem(text) == [NoCandidate EXCEPT !.is_dict = FALSE, !.text = Chars(text)]
        ScalarItem == [NoCandidate EXCEPT !.is_dict = FALSE]
        \* a price longer than RawProductData accepts
        LongPrice == [i \in 1..(RawPriceMaxLen + 1) |-> "9"]
        \* the test product with its price and its stock status given directly, in
        \* a nested object, or not at all
        Prices == {[TestCandidate EXCEPT !.price = p] : p \in Values({"17900"})}
                  \cup {[TestCandidate EXCEPT !.price_dict = TRUE,
                                               !.price_selling = s, !.price_current = c] :
                            s \in Values({"15900"}), c \in Values({"16900"})}
        FieldCandidates ==
            {[c EXCEPT !.stock_status = t] : c \in Prices, t \in Values({"Out of Stock"})}
            \cup {[c EXCEPT !.stock = t] : c \in Prices, t \in Values({"Available"})}
            \cup {[c EXCEPT !.stock_dict = TRUE, !.stock_dict_status = t] :
                     c \in Prices, t \in Values({"In Stock"})}
        ArrayItems ==
            { GalaxyCandidate, BadPriceCandidate, IPhoneCandidate, PriceOnlyCandidate,
              NoCandidate, [TestCandidate EXCEPT !.name = None],
              [TestCandidate EXCEPT !.price = LongPrice],
              StringItem("my name"), StringItem("products"), StringItem("data"), ScalarItem }
        ItemLists == ListsUpTo(ArrayItems, MaxItems) \cup {<<c>> : c \in FieldCandidates}
        NonListKinds == {"absent", "string", "object", "number", "null"}
        \* what iterating a value that is no array yields: the characters of a
        \* string, the keys of an object; iterating a number or null raises
        IteratedAs(kind) ==
            CASE kind = "string" -> <<StringItem("a"), StringItem("b")>>
              [] kind = "object" -> <<StringItem("name")>>
              [] OTHER -> <<>>
        Selves == {NoCandidate, IPhoneCandidate, PriceOnlyCandidate,
                   [TestCandidate EXCEPT !.price_dict = TRUE, !.price_selling = Chars("15900")]}
    IN  {[EmptyDoc EXCEPT !.kind = "string", !.text = Chars(t)] :
            t \in {"hello", "my products", "data", "name"}}
        \cup {[EmptyDoc EXCEPT !.kind = k] : k \in {"number", "null"}}
        \cup {[EmptyDoc EXCEPT !.kind = "array", !.items = l] : l \in ItemLists}
        \cup {[EmptyDoc EXCEPT !.products_kind = "list", !.products = l, !.self = c] :
                 l \in ItemLists, c \in {NoCandidate, IPhoneCandidate}}
        \cup {[EmptyDoc EXCEPT !.products_kind = pk, !.products = IteratedAs(pk),
                                !.nested_kind = "list", !.nested = l, !.self = c] :
                 pk \in NonListKinds, l \in ItemLists, c \in {NoCandidate, IPhoneCandidate}}
        \cup {[EmptyDoc EXCEPT !.products_kind = pk, !.products = IteratedAs(pk),
                                !.nested_kind = nk, !.nested = IteratedAs(nk), !.self = c] :
                 pk \in NonListKinds, nk \in NonListKinds, c \in Selves}

InitExtract ==
    /\ InitCollectorsIdle
    /\ InitStockIdle
    /\ InitPriceIdle
    /\ InitProducer
    /\ output_writable = TRUE
    /\ dir_state = "dir"
    /\ files = <<>>

\* the call: the list it returns is kept in raw_products
ExtractCall ==
    /\ pc = "Idle"
    /\ \E json_data \in Documents :
          LET extracted == extract_products_from_json(json_data)
          IN  /\ raw_data' = <<json_data>>
              /\ parser_stats' = [parser_stats EXCEPT
                                     !.products_extracted = @ + extracted.found,
                                     !.extraction_errors = @ + extracted.errors,
                                     !.parsing_errors = @ \o extracted.parsing_errors]
              /\ raw_products' = extracted.products
              /\ pc' = IF extracted.raised THEN "ExtractRaised" ELSE "ExtractReturned"
    /\ UNCHANGED <<dir_state, files, stats, transformer_stats, validated_products,
                   file_idx, doc_idx, rec_idx, output_rows, returned, raised, stages>>
    /\ UNCHANGED <<stockVars, priceVars, output_columns, output_writable, runs, collectorsVars>>

SpecExtract == InitExtract /\ [][ExtractCall]_vars

\* SpecPrice: parse_price called on one value, and again on str() of its result.
\* The inputs of the repository's tests and of the specification's examples,
\* further spellings of numbers, and every short text over PriceAlphabet.  The
\* third fractional digit of a generated text is never a 5, so that round() meets
\* no tie that the float holds inexactly.
PriceInputs ==
    LET NumberInput(literal) == <<"NUM">> \o Chars(literal)
        ListedPrices ==
            {Chars(t) : t \in
                {"49700", "49,700", "49700 THB", "49700 Baht", "1,234,567.89", "0.01",
                 "999999.99", "", "   ", "invalid", "1.234.50", "1..5", "12thb",
                 "THB100", "1 baht", "T,HB", "+5", "-0", "-0.0", "-0.001", "-.1",
                 "0.125", "0.375", "nan", "NaN", "-nan", "inf", "-inf", "Infinity",
                 "1e3", "5E-1", "-1e-3", "1e", "e1", "1_000", "1__0", "_1", "1_"}}
            \cup {NumberInput(t) : t \in {"49700", "49700.50", "-100", "0", "-0.0", "nan", "inf"}}
            \cup { <<BahtGlyph>> \o Chars("49,700"), <<BahtGlyph>>,
                   <<" ", BahtGlyph, " ">> \o Chars("49,700.50 THB "),
                   <<" ", BahtGlyph, " ">> \o Chars("1,234.50 THB "),
                   Chars("100 ") \o CurrencyWords[3], Chars("100") \o CurrencyWords[3],
                   CurrencyWords[3], <<"1", "TAB", "0", "LF">> }
        PriceAlphabet == {"0", "1", ".", "-", ",", " "}
    IN  {None} \cup ListedPrices \cup TextsUpTo(PriceAlphabet, MaxPriceLen)

InitPrice ==
    /\ InitCollectorsIdle
    /\ InitStockIdle
    /\ InitProducer
    /\ output_writable = TRUE
    /\ dir_state = "dir"
    /\ files = <<>>
    /\ price_input \in PriceInputs
    /\ price_cleaned = None
    /\ price_parsed = NotCalled
    /\ price_reparsed = NotCalled

\* parse_price(price_input); price_cleaned is set when _clean_price_string is reached
ParsePrice ==
    /\ price_parsed = NotCalled
    /\ price_parsed' = parse_price(price_input)
    /\ price_cleaned' = IF price_input = None \/ IsNumber(price_input)
                            \/ Strip(price_input) = <<>>
                         THEN None
                         ELSE _clean_price_string(Strip(price_input))
    /\ UNCHANGED <<price_input, price_reparsed>>
    /\ UNCHANGED <<stockVars, producerVars, collectorsVars>>

\* parse_price(str(parse_price(price_input)))
ReparsePrice ==
    /\ price_parsed.ok
    /\ price_reparsed = NotCalled
    /\ price_reparsed' = parse_price(StrFloat(price_parsed))
    /\ UNCHANGED <<price_input, price_cleaned, price_parsed>>
    /\ UNCHANGED <<stockVars, producerVars, collectorsVars>>

SpecPrice == InitPrice /\ [][ParsePrice \/ ReparsePrice]_vars

\* SpecExport: export_csv called on a list of ProductData objects
InitExport ==
    /\ InitCollectorsIdle
    /\ InitStockIdle
    /\ InitPriceIdle
    /\ output_writable \in BOOLEAN
    /\ dir_state = "dir"
    /\ files = <<>>
    /\ pc = "Idle"
    /\ stats = ZeroStats
    /\ parser_stats = ZeroParserStats
    /\ transformer_stats = ZeroTransformerStats
    /\ raw_data = <<>>
    /\ raw_products = <<>>
    /\ validated_products \in
          LET ExportProducts ==
                  { [NoProduct EXCEPT !.ok = TRUE, !.name = Chars("Galaxy S24"),
                                      !.sku = sku, !.price_thb = 3040005, !.brand = brand,
                                      !.category = category, !.data_source = data_source] :
                      sku \in {Chars("A1"), Chars("A10"), Chars("B2")},
                      brand \in {None, Chars("Samsung")},
                      category \in {None, Chars("Phones")},
                      data_source \in {<<>>, DefaultDataSource} }
          IN  ListsUpTo(ExportProducts, MaxProducts)
    /\ file_idx = 0
    /\ doc_idx = 0
    /\ rec_idx = 0
    /\ output_rows = <<>>
    /\ output_columns = <<>>
    /\ runs = 0
    /\ returned = FALSE
    /\ raised = 0
    /\ stages = <<>>

\* export_csv(validated_products) called on its own
ExportCall ==
    /\ pc = "Idle"
    /\ \E outcome \in export_csv(validated_products, output_writable) :
          /\ stats' = ExportFailureStats(stats, outcome)
          /\ IF outcome.exc = ""
             THEN /\ output_rows' = outcome.df.rows
                  /\ output_columns' = outcome.df.columns
                  /\ returned' = TRUE
                  /\ pc' = "ExportReturned"
                  /\ UNCHANGED raised
             ELSE /\ raised' = raised + 1
                  /\ pc' = "ExportRaised"
                  /\ UNCHANGED <<output_rows, output_columns, returned>>
    /\ UNCHANGED <<dir_state, files, parser_stats, transformer_stats, raw_data, raw_products,
                   validated_products, file_idx, doc_idx, rec_idx, stages, output_writable>>
    /\ UNCHANGED <<stockVars, priceVars, runs, collectorsVars>>

SpecExport == InitExport /\ [][ExportCall]_vars

\* SpecOrganizer: sessions started, written to and ended on one DataOrganizer
InitOrganizerSpec ==
    /\ InitOrganizer
    /\ InitCollectorIdle
    /\ InitStockIdle
    /\ InitPriceIdle
    /\ InitProducer
    /\ output_writable = TRUE
    /\ dir_state = "dir"
    /\ files = <<>>

NextOrganizer ==
    /\ \/ \E session_id \in SessionIds : start_session(session_id)
       \/ \E session_id \in SessionIds :
             session_metadata.files_created < MaxSaved /\ save_search_results(session_id)
       \/ \E session_id \in SessionIds : end_session(session_id)
    /\ UNCHANGED retryVars

SpecOrganizer == InitOrganizerSpec /\ [][NextOrganizer]_vars

\* SpecCollector: one call of collect_search_data
InitCollectorSpec ==
    /\ InitOrganizer
    /\ InitCollector
    /\ search_terms \in ListsUpTo({Chars("iphone"), Chars("samsung")}, MaxTerms)
    /\ max_retries \in 0..MaxRetries
    /\ InitStockIdle
    /\ InitPriceIdle
    /\ InitProducer
    /\ output_writable = TRUE
    /\ dir_state = "dir"
    /\ files = <<>>

NextCollector ==
    \/ CollectSearchData
    \/ StartSearchTerm
    \/ CollectAttempt
    \/ FinishSearchTerm
    \/ FinishCollection

SpecCollector == InitCollectorSpec /\ [][NextCollector]_vars

(***************************************************************************)
(* Properties of process_complete_pipeline, verified under Spec.           *)
(***************************************************************************)
RunEnded == pc \in {"Completed", "FailedFatally"}

StageOrder == <<"Loading", "Extracting", "Validating", "Exporting">>

\* the files of the directory whose kind is one of kinds
FilesOfKind(kinds) == {i \in 1..Len(files) : files[i].kind \in kinds}

\* some file that loads holds a candidate that is extracted and validates
SomeRecordValidates ==
    \E i \in FilesOfKind({"object", "array"}) :
        LET extracted == extract_products_from_json(LoadedDocument(files[i])).products
        IN  \E k \in 1..Len(extracted) : _transform_single_product(extracted[k]).ok

StagesInOrder ==
    /\ Len(stages) <= Len(StageOrder)
    /\ stages = SubSeq(StageOrder, 1, Len(stages))
    /\ (pc \in {"Loading", "Extracting", "Validating", "Exporting"} => stages[Len(stages)] = pc)
    /\ (Len(stages) >= 2 => file_idx = Len(files) + 1 /\ raw_data # <<>>)
    /\ (Len(stages) >= 3 => doc_idx = Len(raw_data) + 1 /\ raw_products # <<>>)
    /\ (Len(stages) >= 4 => rec_idx = Len(raw_products) + 1 /\ validated_products # <<>>)

ExactlyOneEnd ==
    /\ (pc = "Completed" <=> returned)
    /\ (pc = "FailedFatally" <=> raised = 1)
    /\ raised <= 1
    /\ ~(returned /\ raised > 0)

\* a run that has not ended can take a step
CanStep ==
    \/ pc \in {"Idle", "Exporting", "Aborting"}
    \/ (pc = "Loading" /\ file_idx \in 1..(Len(files) + 1))
    \/ (pc = "Extracting" /\ doc_idx \in 1..(Len(raw_data) + 1))
    \/ (pc = "Validating" /\ rec_idx \in 1..(Len(raw_products) + 1))

\* how far the run is from its end: the steps to come after the current loop, and the
\* items the current loop has yet to handle
StepsAfterLoop ==
    CASE pc = "Idle" -> 6
      [] pc = "Loading" -> 5
      [] pc = "Extracting" -> 4
      [] pc = "Validating" -> 3
      [] pc = "Exporting" -> 2
      [] pc = "Aborting" -> 1
      [] OTHER -> 0

ItemsLeft ==
    CASE pc = "Loading" -> Len(files) + 1 - file_idx
      [] pc = "Extracting" -> Len(raw_data) + 1 - doc_idx
      [] pc = "Validating" -> Len(raw_products) + 1 - rec_idx
      [] OTHER -> 0

ComesCloserToEnd ==
    \/ StepsAfterLoop' < StepsAfterLoop
    \/ (StepsAfterLoop' = StepsAfterLoop /\ ItemsLeft' < ItemsLeft /\ ItemsLeft' >= 0)

\* C2: the stages entered are a prefix of Loading, Extracting, Validating, Exporting
\* (in order, each at most once); a stage is entered only when the one before went
\* through all its input and left a non-empty result; the run returns exactly when it
\* is Completed and has raised exactly one RuntimeError exactly when it FailedFatally,
\* never both; and the run ends in one of the two: until then it can take a step, and
\* every step brings it closer to the end.
C2_StagesInOrder ==
    /\ [](StagesInOrder /\ ExactlyOneEnd /\ (RunEnded \/ CanStep))
    /\ [][ComesCloserToEnd]_vars

\* a run went through the four stages and returned
C2_Witness ==
    /\ pc = "Completed"
    /\ stages = StageOrder
    /\ returned
    /\ raised = 0
    /\ file_idx = Len(files) + 1
    /\ Len(files) > 1

\* the Loading stage is over / has made the run fatal
LoadingOver == pc \notin {"Idle", "Loading"}
LoadingAborted == pc \in {"Aborting", "FailedFatally"} /\ stages = <<"Loading">>

\* C3 as stated: Loading makes the run fatal only when the input location is missing
\* or not a directory, or when at least one file was attempted and none loaded.
C3_LoadingFatalOnlyIf ==
    LoadingAborted =>
        \/ dir_state # "dir"
        \/ (Len(files) >= 1 /\ stats.files_processed = 0)

\* C3 amended: Loading makes the run fatal exactly when the input location is missing
\* or not a directory, or when no document was loaded, be it that every attempted file
\* failed or that the directory holds no *.json file at all.
C3_LoadingFatalIff ==
    LoadingOver =>
        (LoadingAborted <=> (dir_state # "dir" \/ stats.files_processed = 0))

\* a run over a directory without *.json files failed in the Loading stage
C3_Witness ==
    /\ dir_state = "dir"
    /\ files = <<>>
    /\ pc = "FailedFatally"
    /\ stages = <<"Loading">>
    /\ raised = 1

ScenarioFiles ==
    << ObjectFile([EmptyDoc EXCEPT !.products_kind = "list",
                                   !.products = <<GalaxyCandidate, BadPriceCandidate>>]) >>

\* C4: a raw record without stock status that validates is in the validated list with
\* stock_status Unknown; the run over the two-candidate document ends with 2 raw
\* records, 1 validated record of status Unknown and 1 validation failure.
C4_MissingStockIsUnknown ==
    /\ \A i \in 1..Len(raw_products) :
          (i < rec_idx /\ raw_products[i].stock_status = None) =>
              LET product == _transform_single_product(raw_products[i])
              IN  product.ok =>
                     /\ \E k \in 1..Len(validated_products) : validated_products[k] = product
                     /\ product.stock_status = Unknown
    /\ (files = ScenarioFiles /\ pc = "Completed") =>
          /\ Len(raw_products) = 2
          /\ Len(validated_products) = 1
          /\ validated_products[1].stock_status = Unknown
          /\ stats.validation_failures = 1

\* the stage has gone through its input
ExtractingOver == Len(stages) >= 2 /\ pc # "Extracting"
ValidatingOver == Len(stages) >= 3 /\ pc # "Validating"

NothingExported ==
    /\ pc \in {"Aborting", "FailedFatally"}
    /\ "Exporting" \notin {stages[i] : i \in 1..Len(stages)}
    /\ output_rows = <<>>
    /\ ~returned
    /\ stats.csv_export_errors = 0

\* C5: once Extracting has ended with no raw record, or Validating with no validated
\* record, the run is failing at that stage, the Exporting stage is not entered, no
\* row is written and csv_export_errors is still 0.
C5_EmptyStageIsFatal ==
    /\ (ExtractingOver /\ raw_products = <<>>) =>
          (NothingExported /\ stages = <<"Loading", "Extracting">>)
    /\ (ValidatingOver /\ validated_products = <<>>) =>
          (NothingExported /\ stages = <<"Loading", "Extracting", "Validating">>)

\* a run whose records all failed validation has failed
C5_Witness ==
    /\ pc = "FailedFatally"
    /\ stages = <<"Loading", "Extracting", "Validating">>
    /\ raw_products # <<>>
    /\ validated_products = <<>>
    /\ stats.validation_failures = Len(raw_products)

Counters ==
    <<stats.files_processed, stats.files_failed, stats.products_extracted,
      stats.successful_validations, stats.validation_failures>>

\* the counters as the stages that ran have accumulated them
CountersAsAccumulated ==
    /\ stats.files_processed = Len(raw_data)
    /\ stats.files_failed =
          Cardinality({i \in FilesOfKind({"malformed", "scalar"}) : i < file_idx})
    /\ stats.products_extracted = Len(raw_products)
    /\ stats.successful_validations = Len(validated_products)
    /\ stats.validation_failures =
          (IF Len(stages) >= 3 THEN Len(raw_products) - Len(validated_products) ELSE 0)

\* C6: the step that aborts the run leaves the five counters as they are, and after
\* the abort they hold what the stages that ran have accumulated.
C6_AbortKeepsCounters ==
    /\ [][pc = "Aborting" => Counters' = Counters]_vars
    /\ [](pc = "FailedFatally" => CountersAsAccumulated)

\* a run failed after files were loaded and skipped and records were rejected
C6_Witness ==
    /\ pc = "FailedFatally"
    /\ stats.files_processed > 0
    /\ stats.files_failed > 0
    /\ stats.products_extracted > 0
    /\ stats.validation_failures > 0

(***************************************************************************)
(* Properties of transform_to_product_data, verified under SpecTransform.  *)
(***************************************************************************)
Alphanumerics == UpperSet \cup LowerSet \cup Digits \cup ThaiWordChars

FieldInvariants(product) ==
    /\ Len(product.name) >= 2
    /\ Len(product.name) <= 500
    /\ product.sku # <<>>
    /\ Len(product.sku) <= 100
    /\ Upper(product.sku) = product.sku
    /\ \A i \in 1..Len(product.sku) : product.sku[i] \in Alphanumerics \cup {"-", "_"}
    /\ product.price_thb >= 0
    /\ product.stock_status \in {InStock, OutOfStock, Unknown}

\* C7: every record of the validated list satisfies the field invariants; when the
\* call has returned, every raw record is either in the list or counted as failed.
C7_ValidatedFieldInvariants ==
    /\ \A i \in 1..Len(validated_products) : FieldInvariants(validated_products[i])
    /\ transformer_stats.transformations_successful = Len(validated_products)
    /\ pc = "Returned" =>
          /\ transformer_stats.transformations_attempted = Len(raw_products)
          /\ transformer_stats.transformation_errors =
                Len(raw_products) - Len(validated_products)

\* a call returned a record whose SKU was normalized and rejected another record
C7_Witness ==
    /\ pc = "Returned"
    /\ Len(raw_products) = 2
    /\ Len(validated_products) = 1
    /\ validated_products[1].sku = Chars("IP15PM-01_A")
    /\ transformer_stats.transformation_errors = 1

\* a step of the loop of transform_to_product_data, on raw_products[rec_idx]
TransformStep == pc = "Validating" /\ rec_idx <= Len(raw_products) /\ rec_idx' = rec_idx + 1

\* the step appended a validated record and counted no failure
RecordAccepted ==
    /\ Len(validated_products') = Len(validated_products) + 1
    /\ transformer_stats'.transformation_errors = transformer_stats.transformation_errors

\* the step appended nothing and counted exactly one failure
RecordRejected ==
    /\ validated_products' = validated_products
    /\ transformer_stats'.transformation_errors = transformer_stats.transformation_errors + 1

\* the other fields of the record are those of the valid base record
OtherFieldsValid(r) == r.name = BaseRawRecord.name /\ r.sku = BaseRawRecord.sku

\* C15: a price outside the advisory range [0.01, 1,000,000] that is not negative is
\* only flagged with a warning: a raw record whose parsed price is 0 or above
\* 1,000,000, its other fields being valid, still gives a validated record and is
\* not counted as a failure.
C15_OutOfRangeOnlyWarned ==
    [][ (/\ TransformStep
         /\ OtherFieldsValid(raw_products[rec_idx])
         /\ LET price == parse_price(raw_products[rec_idx].price)
            IN  /\ price.ok /\ price.kind = "num"
                /\ ~validate_price_range(price))
        => RecordAccepted ]_vars

\* C16: transforming a raw record whose cleaned name is shorter than 2 characters
\* fails: the record is rejected and counted as a failure, and no fallback or
\* prefixed name is substituted for it.
C16_ShortNameRejected ==
    [][ (/\ TransformStep
         /\ Len(CollapseWhitespace(Strip(raw_products[rec_idx].name))) < NameMinLen)
        => RecordRejected ]_vars

\* the price text is a minus sign before a number above zero
DenotesNegative(price) ==
    /\ price # None /\ price # <<>>
    /\ Head(price) = "-"
    /\ ParseFloat(Tail(price)).ok
    /\ ParseFloat(Tail(price)).cents > 0

\* C17: a raw record whose price text denotes a negative number (such as "-5")
\* raises a price error: the record does not appear in the validated output,
\* transformation_errors grows by exactly one, and the loop goes on to the other
\* records of the batch, all of which are attempted before the call returns.
C17_NegativePriceRejected ==
    /\ [][ (TransformStep /\ DenotesNegative(raw_products[rec_idx].price))
            => (/\ ~parse_price(raw_products[rec_idx].price).ok
                /\ RecordRejected
                /\ pc' = "Validating") ]_vars
    /\ [](pc = "Returned" =>
             /\ transformer_stats.transformations_attempted = Len(raw_products)
             /\ Len(validated_products) + transformer_stats.transformation_errors
                    = Len(raw_products))

\* a record priced "-5" was rejected and the record after it was validated
C17_Witness ==
    /\ pc = "Returned"
    /\ Len(raw_products) = 2
    /\ raw_products[1].price = Chars("-5")
    /\ transformer_stats.transformation_errors = 1
    /\ Len(validated_products) = 1
    /\ validated_products[1].sku = raw_products[2].sku

(***************************************************************************)
(* Properties of StockStatusNormalizer, verified under SpecStock.          *)
(***************************************************************************)
\* the call on sn_status was made and sn_status is a text that is cleaned and matched
StatusWasMatched == sn_result # Pending /\ IsStr(sn_status) /\ ~Falsy(sn_status)

MatchesBothSets ==
    /\ _matches_patterns(_clean_status_string(sn_status), out_of_stock_patterns)
    /\ _matches_patterns(_clean_status_string(sn_status), in_stock_patterns)

\* C8: a status text that matches at least one pattern of the out-of-stock list and
\* at least one of the in-stock list is classified Out of Stock, with the default
\* lists and with custom patterns added.
C8_OutOfStockFirst ==
    (StatusWasMatched /\ MatchesBothSets) => sn_result = OutOfStock

\* "preorder" was classified after "preorder" was added to the in-stock list and
\* "order" to the out-of-stock list
C8_Witness ==
    /\ StatusWasMatched
    /\ MatchesBothSets
    /\ sn_status = Chars("preorder")
    /\ in_stock_patterns = DefaultInStockPatterns \o <<Chars("preorder")>>
    /\ out_of_stock_patterns = DefaultOutOfStockPatterns \o <<Chars("order")>>
    /\ sn_result = OutOfStock

\* the bare English tokens the specification matches as whole words only
BareTokens == {Chars("yes"), Chars("no"), Chars("0"), Chars("1")}

\* the specified matching of one pattern: a bare token as a whole word,
\* every other pattern as _matches_patterns matches it
MatchesAsSpecified(status, pattern) ==
    IF Lower(pattern) \in BareTokens
    THEN WordSearch(Lower(pattern), status)
    ELSE MatchesOnePattern(status, pattern)

MatchesNoneAsSpecified(status, patterns) ==
    \A k \in 1..Len(patterns) : ~MatchesAsSpecified(status, patterns[k])

\* C9: a text in which yes / no / 0 / 1 occurs only inside a longer word, and which
\* matches no other pattern of the list, is not classified by that token.
C9_BareTokensWholeWord ==
    StatusWasMatched =>
        LET cleaned_status == _clean_status_string(sn_status)
        IN  /\ MatchesNoneAsSpecified(cleaned_status, out_of_stock_patterns)
                  => sn_result # OutOfStock
            /\ ( /\ MatchesNoneAsSpecified(cleaned_status, out_of_stock_patterns)
                 /\ MatchesNoneAsSpecified(cleaned_status, in_stock_patterns) )
                  => sn_result = Unknown

\* C10: for a text (empty and blank ones included) and for None the call returns one
\* of the three statuses and does not raise; the empty text and None give Unknown.
C10_TotalAndClosed ==
    (sn_result # Pending /\ (IsStr(sn_status) \/ sn_status = None)) =>
        /\ sn_result \in {InStock, OutOfStock, Unknown}
        /\ (sn_status \in {None, <<>>} => sn_result = Unknown)

\* None was normalized
C10_Witness ==
    /\ sn_result = Unknown
    /\ sn_status = None
    /\ normalization_stats.unknown_status = 1

(***************************************************************************)
(* Properties of extract_products_from_json, verified under SpecExtract.   *)
(***************************************************************************)
Called == pc \in {"ExtractReturned", "ExtractRaised"}

\* the JSON value the call was given
GivenDocument == raw_data[1]

\* an exception reached the except clause of extract_products_from_json
FailureEscaped == Called /\ ExtractionBody(GivenDocument).exc

\* C11: extract_products_from_json never throws, whatever JSON value it is given:
\* the call returns a list of RawProductData objects, and a failure that reaches
\* its except clause is logged in parsing_errors and counted as exactly one
\* extraction error, the list built so far being returned.
C11_ExtractionNeverThrows ==
    /\ pc # "ExtractRaised"
    /\ Called => \A i \in 1..Len(raw_products) : raw_products[i].ok
    /\ FailureEscaped =>
          /\ parser_stats.extraction_errors = 1
          /\ Len(parser_stats.parsing_errors) = 1
          /\ raw_products = <<>>

\* the call was given a number or null, on which 'products' in json_data raises
\* TypeError, and it returned
C11_Witness ==
    /\ pc = "ExtractReturned"
    /\ FailureEscaped
    /\ GivenDocument.kind \in {"number", "null"}

\* the records the shape resolution of the specification yields for a document
SpecifiedRecords(d) ==
    IF d.kind = "object" /\ d.products_kind = "list"
    THEN _extract_from_products_array(d.products).products
    ELSE IF d.kind = "object" /\ d.nested_kind = "list"
    THEN _extract_from_products_array(d.nested).products
    ELSE IF d.kind = "array"
    THEN _extract_from_products_array(d.items).products
    ELSE IF d.kind = "object" /\ _is_single_product(d) /\ _extract_single_product(d.self).ok
    THEN <<_extract_single_product(d.self)>>
    ELSE <<>>

\* an object in which a name or a SKU can be located
ProductLike(c) ==
    c.is_dict /\ (_extract_product_name(c) # <<>> \/ _extract_product_sku(c) # <<>>)

\* C12: the shape of a document is resolved in order and the first matching shape
\* is used: an object with a products array, an object with a data.products array,
\* an array, an object with a product-indicator key, otherwise no record.  A field
\* that is present but holds no array does not match, and resolution falls through
\* to the next shape.
C12_OrderedDispatch ==
    Called => raw_products = SpecifiedRecords(GivenDocument)

\* C13: a candidate in which neither a name nor a SKU can be located is dropped and
\* not counted as an error: extraction_errors and parsing_errors stay as they were.
C13_DroppedIsNoError ==
    (/\ Called
     /\ GivenDocument.kind = "array"
     /\ \A i \in 1..Len(GivenDocument.items) :
           GivenDocument.items[i].is_dict /\ ~ProductLike(GivenDocument.items[i]))
    => /\ raw_products = <<>>
       /\ parser_stats.extraction_errors = 0
       /\ parser_stats.parsing_errors = <<>>

\* C14: when the only usable value of a candidate's price or stock status is in
\* the nested object (price.selling, price.current, stock.status), the extracted
\* raw value is that nested value, not str() of the enclosing object and not None.
C14_NestedFallback ==
    (/\ Called
     /\ GivenDocument.kind = "array"
     /\ Len(GivenDocument.items) = 1
     /\ Len(raw_products) = 1)
    => LET c == GivenDocument.items[1]
           nested_price == IF c.price_selling # None THEN c.price_selling
                           ELSE c.price_current
       IN  /\ (c.price_dict /\ nested_price # None) => raw_products[1].price = nested_price
           /\ (c.stock_dict /\ c.stock_dict_status # None
                   /\ c.stock_status = None /\ c.stock = None)
                  => raw_products[1].stock_status = c.stock_dict_status

(***************************************************************************)
(* Properties of PriceParser, verified under SpecPrice.                    *)
(***************************************************************************)
PriceCalled == price_parsed # NotCalled

\* the float is at least 0 (nan is not)
AtLeastZero(x) == x.kind = "inf" \/ (x.kind = "num" /\ x.cents >= 0)

\* Python's == on floats: nan equals nothing, -0.0 equals 0.0
FloatEq(x, y) ==
    /\ x.kind # "nan" /\ y.kind # "nan"
    /\ x.kind = y.kind /\ x.cents = y.cents
    /\ (x.kind = "inf" => x.negative = y.negative)

\* the inputs on which parse_price is specified to fail: None, an empty or
\* whitespace-only text, a text that is no number after cleaning, a negative number
SpecifiedToFail(input) ==
    \/ input = None
    \/ /\ IsNumber(input)
       /\ FloatIsNegative(ParseFloat(Tail(input)), IsZeroNumber(Tail(input)))
    \/ /\ ~IsNumber(input)
       /\ LET cleaned == _clean_price_string(Strip(input))
          IN  \/ Strip(input) = <<>>
              \/ ~ParseFloat(cleaned).ok
              \/ FloatIsNegative(ParseFloat(cleaned), IsZeroNumber(cleaned))

\* C18: parse_price fails exactly when the input is None, empty or whitespace
\* only, not a number after cleaning, or negative; for every other input it
\* returns a value that is at least 0.
C18_FailsExactlyWhen ==
    PriceCalled =>
        /\ ~price_parsed.ok <=> SpecifiedToFail(price_input)
        /\ price_parsed.ok => AtLeastZero(price_parsed)

\* the text behind the last '.' of s
AfterLastPoint(s) ==
    LET points == {i \in 1..Len(s) : s[i] = "."}
        last == CHOOSE i \in points : \A j \in points : j <= i
    IN  IF points = {} THEN <<>> ELSE SubSeq(s, last + 1, Len(s))

\* what parse_price gave for the text, in cents, or -1 when it raised
ParsedCents(text) ==
    IF price_input = text /\ price_parsed.ok /\ price_parsed.kind = "num"
    THEN price_parsed.cents ELSE 0 - 1

Removable == {BahtGlyph, ","} \cup Whitespace

\* C19: cleaning a price string removes the currency glyph, the whole-word currency
\* words THB, Baht and the Thai word (whatever their case), thousands commas and all
\* whitespace, and of several decimal points it keeps only the last one:
\* "1.234.50" is 1234.50, "1,234,567.89" is 1234567.89, " B 1,234.50 THB " with the
\* glyph is 1234.50.
C19_CleaningRemoves ==
    (PriceCalled /\ price_cleaned # None) =>
        /\ \A i \in 1..Len(price_cleaned) : price_cleaned[i] \notin Removable
        /\ CountChar(price_cleaned, ".") <= 1
        \* of a text without letters, only the removable characters and the points
        \* before the last one are gone
        /\ (\A i \in 1..Len(price_input) :
                price_input[i] \in Digits \cup Removable \cup {".", "-", "+"})
              => /\ RemoveChars(price_cleaned, {"."})
                      = RemoveChars(price_input, Removable \cup {"."})
                 /\ AfterLastPoint(price_cleaned)
                      = RemoveChars(AfterLastPoint(price_input), Removable)
                 /\ (CountChar(price_input, ".") > 0 => CountChar(price_cleaned, ".") = 1)
        \* a currency word is removed as a whole word, in any case, and not inside
        \* another word
        /\ price_input = Chars("49700 THB") => ParsedCents(price_input) = 4970000
        /\ price_input = Chars("49700 Baht") => ParsedCents(price_input) = 4970000
        /\ price_input = Chars("1 baht") => ParsedCents(price_input) = 100
        /\ price_input = Chars("100 ") \o CurrencyWords[3] => ParsedCents(price_input) = 10000
        /\ price_input \in {Chars("12thb"), Chars("THB100"), Chars("100") \o CurrencyWords[3]}
              => price_cleaned = price_input /\ ~price_parsed.ok
        \* the examples
        /\ price_input = Chars("1.234.50") => ParsedCents(price_input) = 123450
        /\ price_input = Chars("1,234,567.89") => ParsedCents(price_input) = 123456789
        /\ price_input = <<" ", BahtGlyph, " ">> \o Chars("1,234.50 THB ")
              => ParsedCents(price_input) = 123450

\* the text with two decimal points was parsed
C19_Witness ==
    /\ price_input = Chars("1.234.50")
    /\ price_cleaned = Chars("1234.50")
    /\ price_parsed.ok /\ price_parsed.cents = 123450

\* C20: parsing is idempotent on its own output: for every input x that
\* parse_price accepts, parse_price(str(parse_price(x))) equals parse_price(x).
C20_Idempotent ==
    price_reparsed # NotCalled =>
        /\ price_reparsed.ok
        /\ FloatEq(price_reparsed, price_parsed)

(***************************************************************************)
(* Properties of export_csv, verified under SpecExport.                    *)
(***************************************************************************)
ExportEnded == pc \in {"ExportReturned", "ExportRaised"}

FileWritten == output_columns # <<>>

\* C21: export_csv called with an empty list raises an error and writes no file;
\* called with a non-empty list and a writable destination it returns, and the file it
\* wrote holds exactly one data row per product of the list.
C21_EmptyRefusedElseOneRowEach ==
    ExportEnded =>
        /\ IsEmpty(validated_products) =>
              pc = "ExportRaised" /\ raised = 1 /\ ~returned /\ ~FileWritten
        /\ (~IsEmpty(validated_products) /\ output_writable) =>
              /\ pc = "ExportReturned" /\ returned /\ raised = 0 /\ FileWritten
              /\ Len(output_rows) = Len(validated_products)

C21_Witness ==
    /\ pc = "ExportReturned"
    /\ Len(validated_products) = MaxProducts
    /\ Len(output_rows) = MaxProducts

\* the number of times a row stands in a list of rows
Occurrences(rows, row) == Cardinality({i \in 1..Len(rows) : rows[i] = row})

Ascending(rows) ==
    \A i \in 1..(Len(rows) - 1) : TextLessEq(rows[i].SKU, rows[i + 1].SKU)

DistinctSkus(products) ==
    \A i, j \in 1..Len(products) : i # j => products[i].sku # products[j].sku

\* the lists holding the same products as the given one, in any order
Reorderings(products) ==
    { [i \in 1..Len(products) |-> products[f[i]]] :
        f \in { g \in [1..Len(products) -> 1..Len(products)] :
                  \A i, j \in 1..Len(products) : i # j => g[i] # g[j] } }

\* C22: the rows of the written file ascend by SKU and are a permutation of the rows
\* of the products handed to export_csv (every row as often as its product, also for
\* products of one SKU); for products of distinct SKUs every order of the same
\* products gives this same row sequence.
C22_RowsSortedPermutation ==
    pc = "ExportReturned" =>
        /\ Ascending(output_rows)
        /\ Len(output_rows) = Len(validated_products)
        /\ \A i \in 1..Len(validated_products) :
              Occurrences(output_rows, DataRow(validated_products[i]))
                 = Occurrences(DataRows(validated_products), DataRow(validated_products[i]))
        /\ DistinctSkus(validated_products) =>
              \A reordered \in Reorderings(validated_products) :
                 { df.rows : df \in _create_dataframe_from_products(reordered) }
                    = {output_rows}

C22_Witness ==
    /\ pc = "ExportReturned"
    /\ Len(validated_products) = MaxProducts
    /\ DistinctSkus(validated_products)
    /\ ~Ascending(DataRows(validated_products))

\* the header the specification gives for the products: the four fixed columns, then
\* Brand, Category and Source, each only if some product carries it
SpecifiedHeader(products) ==
    <<"Name", "SKU", "Price", "Stock Status">>
    \o (IF \E i \in 1..Len(products) : ~Falsy(products[i].brand) THEN <<"Brand">> ELSE <<>>)
    \o (IF \E i \in 1..Len(products) : ~Falsy(products[i].category)
        THEN <<"Category">> ELSE <<>>)
    \o (IF \E i \in 1..Len(products) : ~Falsy(products[i].data_source)
        THEN <<"Source">> ELSE <<>>)

\* C26: the header of the written file is Name, SKU, Price, Stock Status, then Brand,
\* Category, Source in this order, each of the three present exactly if some product
\* carries it, whatever the order of the products.
C26_FixedColumnOrder ==
    pc = "ExportReturned" => output_columns = SpecifiedHeader(validated_products)

(***************************************************************************)
(* Properties of one DataProducer used for several runs, verified under    *)
(* SpecRuns.                                                               *)
(***************************************************************************)
\* get_detailed_stats shows the last 10 errors and the last 10 warnings
LastShown == 10

\* C23: the producer never retains more than a fixed number of error strings or of
\* warning strings (the number get_detailed_stats shows), whatever was loaded,
\* extracted, validated and exported before.
C23_ErrorListBounded ==
    /\ Len(stats.errors) <= LastShown
    /\ Len(stats.warnings) <= LastShown

\* C27: on one DataProducer used for several runs without reset_stats, after every
\* run that has gone through the Validating stage the counters describe that run:
\* successful_validations + validation_failures = products_extracted, and
\* successful_validations is the length of the run's validated list.
C27_CountersDescribeRun ==
    ValidatingOver =>
        /\ stats.successful_validations + stats.validation_failures
              = stats.products_extracted
        /\ stats.successful_validations = Len(validated_products)

(***************************************************************************)
(* Further properties of transform_to_product_data, verified under         *)
(* SpecTransform.                                                          *)
(***************************************************************************)
\* C24: the stock_status of the validated record that DataTransformer makes of a raw
\* record is what StockStatusNormalizer.normalize_stock_status gives for the raw
\* record's stock-status text; so a text matching both an out-of-stock and an
\* in-stock phrase ends as Out of Stock.
C24_TransformerRefinesNormalizer ==
    [][ (TransformStep /\ RecordAccepted /\ ~Falsy(raw_products[rec_idx].stock_status))
        => validated_products'[Len(validated_products')].stock_status
              = normalize_stock_status(raw_products[rec_idx].stock_status,
                                       DefaultOutOfStockPatterns, DefaultInStockPatterns) ]_vars

\* C25: a record that fails to transform is the only one lost: every step of the loop
\* either appends the transformed record to the validated list or, when the record
\* does not transform, leaves the list alone, counts one error and goes on with the
\* next record; the call returns only after every record was attempted; attempted =
\* successful + errors, and there is one stored error detail per counted error.
C25_FailureLosesOnlyTheRecord ==
    /\ [][ TransformStep =>
             /\ pc' = "Validating"
             /\ \/ /\ RecordAccepted
                   /\ validated_products' =
                         Append(validated_products,
                                _transform_single_product(raw_products[rec_idx]))
                \/ /\ RecordRejected
                   /\ ~_transform_single_product(raw_products[rec_idx]).ok ]_vars
    /\ [](/\ pc = "Returned" => rec_idx = Len(raw_products) + 1
          /\ transformer_stats.transformations_attempted = rec_idx - 1
          /\ transformer_stats.transformations_attempted
                = transformer_stats.transformations_successful
                  + transformer_stats.transformation_errors
          /\ Len(transformer_stats.error_details)
                = transformer_stats.transformation_errors)

\* the first record of a list failed and the second one was still validated
C25_Witness ==
    /\ pc = "Returned"
    /\ Len(raw_products) = 2
    /\ ~_transform_single_product(raw_products[1]).ok
    /\ validated_products = <<_transform_single_product(raw_products[2])>>
    /\ transformer_stats.transformation_errors = 1

(***************************************************************************)
(* A further property of StockStatusNormalizer, verified under SpecStock.  *)
(***************************************************************************)
\* C28: with the default pattern lists, normalizing a status that
\* normalize_stock_status returned gives the same status again: In Stock, Out of
\* Stock and Unknown are fixed points.
C28_CanonicalFixedPoints ==
    ( /\ sn_result \in {InStock, OutOfStock, Unknown}
      /\ in_stock_patterns = DefaultInStockPatterns
      /\ out_of_stock_patterns = DefaultOutOfStockPatterns )
    => normalize_stock_status(Chars(sn_result), out_of_stock_patterns, in_stock_patterns)
          = sn_result

(***************************************************************************)
(* Properties of DataOrganizer, verified under SpecOrganizer.              *)
(***************************************************************************)
Started(session_id) == metadata_files[session_id] # NoMetadata

\* C29: once end_session was called with the id of a session that was started, the
\* stored metadata of that session has status completed, whatever was started or
\* ended in between; end_session with an id that is not the current one changes
\* nothing; after an end_session that found its session current there is no
\* current session.
C29_EndedSessionIsCompleted ==
    /\ []( (organizer_call.op = "end_session" /\ Started(organizer_call.session_id))
             => metadata_files[organizer_call.session_id].status = "completed" )
    /\ []( (organizer_call.op = "end_session" /\ organizer_call.was_current)
             => current_session_id = None )
    /\ [][ (organizer_call'.op = "end_session" /\ ~organizer_call'.was_current)
             => UNCHANGED <<current_session_id, session_metadata, metadata_files>> ]_vars


(***************************************************************************)
(* Properties of SpecCollector.                                            *)
(***************************************************************************)
AllRaised(outcomes) == \A i \in 1..Len(outcomes) : outcomes[i] = "raise"

\* the search terms whose turn of the loop is over
TermsFinished == SubSeq(search_terms, 1, Len(search_terms_processed) + Len(search_terms_failed))

====
